---- MODULE Spec2Model ----
(***************************************************************************)
(* The multi-provider LLM client of src/services/freeLLMService.ts:        *)
(* FreeLLMService.processMessage with its ordered fallback pass and its    *)
(* fixed-window request counter.                                           *)
(*                                                                         *)
(* A processMessage call is an async function: it runs without             *)
(* interruption up to its next `await fetch(...)`, so one action models    *)
(* the code from one await (or the call's start) to the next await (or     *)
(* the return).  The clock (Date.now()) advances between such steps.       *)
(***************************************************************************)
EXTENDS Integers, Sequences, FiniteSets, TLC

(***************************************************************************)
(* Bounds of the model.                                                    *)
(***************************************************************************)
\* processMessage calls started in one behaviour
MaxCalls == 2
\* the clock advances in steps of ClockStep ms (longer than a rate window), up to MaxTime ms
ClockStep == 90000
MaxTime == 90000
\* an initial rate state is Headroom requests short of the provider's rateLimit
Headroom == 1
\* call slots (calls that may be in flight at once when calls overlap)
MaxSlots == 1
\* words in a user message given to getOfflineFallbackResponse alone
MaxWords == 3
\* pieces in a credential whose value is not one of the shipped ones
MaxKeyPieces == 2
\* the rate limiter alone: the clock advances in steps of RateStep ms up to
\* RateMaxTime ms, and up to MaxOver requests are recorded beyond a rateLimit
RateStep == 30000
RateMaxTime == 150000
MaxOver == 1
\* paragraphs in a raw model text given to the parser alone
MaxParagraphs == 3

(***************************************************************************)
(* Provider registry.                                                      *)
(***************************************************************************)
Providers == {"GROQ", "TOGETHER", "COHERE", "HUGGING_FACE"}

FREE_LLM_PROVIDERS ==
    [HUGGING_FACE |-> [name |-> "Hugging Face", maxTokens |-> 1024, rateLimit |-> 30],
     COHERE       |-> [name |-> "Cohere",       maxTokens |-> 2048, rateLimit |-> 100],
     GROQ         |-> [name |-> "Groq",         maxTokens |-> 8192, rateLimit |-> 30],
     TOGETHER     |-> [name |-> "Together AI",  maxTokens |-> 4096, rateLimit |-> 60]]

\* the order in which getAvailableProviders pushes the providers
ProviderOrder == <<"GROQ", "TOGETHER", "COHERE", "HUGGING_FACE">>

\* `now + 60000`
WINDOW_MS == 60000

\* LLMResponse.confidence, in tenths: 0.8, 1.0, 0.6
CONFIDENCE_PARSED == 8
CONFIDENCE_CONFIG == 10
CONFIDENCE_OFFLINE == 6

(***************************************************************************)
(* Credentials.  A credential is undefined (NoKey) or a string, written    *)
(* as the sequence of its pieces; includes(piece) is membership of the     *)
(* piece and trim() removes the blank pieces.                              *)
(***************************************************************************)
NoKey == <<"undefined">>
BlankPieces == {" ", "\n"}

Includes_AtStart(str, piece) == str # <<>> /\ str[1] = piece

Includes(str, piece) == \E i \in 1..Len(str) : str[i] = piece

RECURSIVE Trim(_)
Trim(str) ==
    IF str = <<>> THEN <<>>
    ELSE IF Head(str) \in BlankPieces THEN Trim(Tail(str))
    ELSE IF str[Len(str)] \in BlankPieces THEN Trim(SubSeq(str, 1, Len(str) - 1))
    ELSE str

\* a real key, and what an unconfigured provider holds in the environment
ValidKey == <<"gsk_", "live">>
UnsetKey ==
    [GROQ         |-> NoKey,
     TOGETHER     |-> <<"your_", "together", "_api_key_here">>,
     COHERE       |-> <<" ", " ">>,
     HUGGING_FACE |-> <<"hf_", "your_", "token">>]

\* the values an environment variable can hold: unset, or any string of up to
\* MaxKeyPieces pieces ('' among them)
KeyPieces == {" ", "your_", "_api_key_here", "gsk_"}
Credentials == {NoKey} \cup UNION {[1..n -> KeyPieces] : n \in 0..MaxKeyPieces}


(***************************************************************************)
(* State.                                                                  *)
(***************************************************************************)
VARIABLES
    env,              \* process.env: provider -> credential (NoKey when unset)
    currentProvider,  \* FreeLLMService.currentProvider
    requestCounts,    \* FreeLLMService.requestCounts: provider -> NoState or {count, resetTime}
    now,              \* Date.now(), in ms
    calls,            \* slot -> the processMessage call running in it
    started,          \* number of processMessage calls started so far
    sent,             \* the network as observed from outside, when `on`: provider ->
                      \* the requests sent to it in the 60 s since `start`
    probe,            \* a pure function under check: its input and its output
    screen            \* EnhancedAIAssistant: the state of the assistant screen

vars == <<env, currentProvider, requestCounts, now, calls, started, sent, probe, screen>>

Slots == 1..MaxSlots
None == "none"
NoState == [count |-> 0, resetTime |-> 0]

\* the assistant screen before it is mounted.  `awaiting` is the pending
\* `await freeLLMService.processMessage`; `invoked` is the last call of
\* handleSendMessage: its argument and inputText as it found it, and a bit
\* that every call flips
NoScreen == [messages |-> <<>>, inputText |-> <<>>, isTyping |-> FALSE,
             isProcessing |-> FALSE, connectionStatus |-> "online", awaiting |-> FALSE,
             invoked |-> [n |-> 0, text |-> <<>>, inputText |-> <<>>]]

\* a provider whose environment variable holds a real key
Configured(provider) == env[provider] = ValidKey

(***************************************************************************)
(* Credential Resolver.                                                    *)
(***************************************************************************)
\* the `if` of getValidApiKey: TRUE when the key is returned, FALSE for null
getValidApiKey_DropPlaceholder(provider) ==
    LET apiKey == env[provider]
    IN  ~(apiKey = NoKey \/ apiKey = <<>> \/ Trim(apiKey) = <<>>)

getValidApiKey(provider) ==
    LET apiKey == env[provider]
    IN  ~(  apiKey = NoKey \/ apiKey = <<>>
         \/ Includes(apiKey, "your_")
         \/ Includes(apiKey, "_api_key_here")
         \/ Trim(apiKey) = <<>>)

hasConfiguredProviders ==
    getValidApiKey("GROQ") \/ getValidApiKey("TOGETHER")
        \/ getValidApiKey("COHERE") \/ getValidApiKey("HUGGING_FACE")

RECURSIVE PushValid_Prepend(_, _)
PushValid_Prepend(available, i) ==
    IF i > Len(ProviderOrder) THEN available
    ELSE PushValid_Prepend(IF getValidApiKey(ProviderOrder[i])
                           THEN <<ProviderOrder[i]>> \o available ELSE available, i + 1)

RECURSIVE PushValid(_, _)
PushValid(available, i) ==
    IF i > Len(ProviderOrder) THEN available
    ELSE PushValid(IF getValidApiKey(ProviderOrder[i])
                   THEN Append(available, ProviderOrder[i]) ELSE available, i + 1)

getAvailableProviders == PushValid(<<>>, 1)

SeqIncludes(seq, x) == \E i \in 1..Len(seq) : seq[i] = x

(***************************************************************************)
(* Rate Limiter.                                                           *)
(***************************************************************************)
\* isRateLimited's answer, and the requestCounts it leaves (its `delete`)
isRateLimited_Strict(rc, provider, t) ==
    LET requestData == rc[provider]
    IN  IF requestData = NoState THEN [limited |-> FALSE, rc |-> rc]
        ELSE IF t > requestData.resetTime
             THEN [limited |-> FALSE, rc |-> [rc EXCEPT ![provider] = NoState]]
        ELSE [limited |-> requestData.count > FREE_LLM_PROVIDERS[provider].rateLimit,
              rc |-> rc]

isRateLimited_NoDelete(rc, provider, t) ==
    LET requestData == rc[provider]
    IN  IF requestData = NoState THEN [limited |-> FALSE, rc |-> rc]
        ELSE IF t > requestData.resetTime THEN [limited |-> FALSE, rc |-> rc]
        ELSE [limited |-> requestData.count >= FREE_LLM_PROVIDERS[provider].rateLimit,
              rc |-> rc]

isRateLimited(rc, provider, t) ==
    LET requestData == rc[provider]
    IN  IF requestData = NoState THEN [limited |-> FALSE, rc |-> rc]
        ELSE IF t > requestData.resetTime
             THEN [limited |-> FALSE, rc |-> [rc EXCEPT ![provider] = NoState]]
        ELSE [limited |-> requestData.count >= FREE_LLM_PROVIDERS[provider].rateLimit,
              rc |-> rc]

updateRequestCount_ResetAtBoundary(rc, provider, t) ==
    LET resetTime == t + WINDOW_MS
    IN  IF rc[provider] = NoState \/ t >= rc[provider].resetTime
        THEN [rc EXCEPT ![provider] = [count |-> 1, resetTime |-> resetTime]]
        ELSE [rc EXCEPT ![provider].count = @ + 1]

\* a recorder that forgets the other providers
updateRequestCount_ClearsOthers(rc, provider, t) ==
    LET resetTime == t + WINDOW_MS
    IN  IF rc[provider] = NoState \/ t > rc[provider].resetTime
        THEN [p \in Providers |->
                IF p = provider THEN [count |-> 1, resetTime |-> resetTime] ELSE NoState]
        ELSE [rc EXCEPT ![provider].count = @ + 1]

\* a recorder that moves the window's end with every request
updateRequestCount_SlidesWindow(rc, provider, t) ==
    LET resetTime == t + WINDOW_MS
    IN  IF rc[provider] = NoState \/ t > rc[provider].resetTime
        THEN [rc EXCEPT ![provider] = [count |-> 1, resetTime |-> resetTime]]
        ELSE [rc EXCEPT ![provider] = [count |-> @.count + 1, resetTime |-> resetTime]]

updateRequestCount(rc, provider, t) ==
    LET resetTime == t + WINDOW_MS
    IN  IF rc[provider] = NoState \/ t > rc[provider].resetTime
        THEN [rc EXCEPT ![provider] = [count |-> 1, resetTime |-> resetTime]]
        ELSE [rc EXCEPT ![provider].count = @ + 1]


(***************************************************************************)
(* Replies.  A user message is the sequence of its words; toLowerCase      *)
(* lower-cases each word and includes(keyword) finds the keyword among     *)
(* the words of the lower-cased message.                                   *)
(***************************************************************************)
Vocabulary == {"part", "Part", "component", "fault", "FAULT", "error", "code",
               "maintenance", "service", "hello"}

\* toLowerCase on one word
LowerToken(word) ==
    CASE word = "Part"  -> "part"
      [] word = "FAULT" -> "fault"
      [] word = "Part:" -> "part:"
      [] word = "Part #:" -> "part #:"
      [] word = "Fault Code:" -> "fault code:"
      [] word = "Severity:" -> "severity:"
      [] word = "Possible Causes:" -> "possible causes:"
      [] word = "Recommended Actions:" -> "recommended actions:"
      [] word = "Replacement part:" -> "replacement part:"
      [] word = "Troubleshooting Steps:" -> "troubleshooting steps:"
      [] word = "High" -> "high"
      [] word = "Severe" -> "severe"
      [] word = "Low" -> "low"
      [] OTHER -> word

toLowerCase_Identity(message) == message

toLowerCase(message) == [i \in 1..Len(message) |-> LowerToken(message[i])]

OFFLINE_PARTS == "I can help you find parts for your Cat equipment."
OFFLINE_FAULT == "I can help diagnose fault codes."
OFFLINE_MAINTENANCE == "I can provide maintenance guidance for your Cat equipment."
OFFLINE_DEFAULT == "I'm here to help with your Cat equipment needs."
CONFIG_REQUIRED == "**AI Assistant Setup Required**"
PLACEHOLDER == "I apologize, but I couldn't process your request."

NoReply == [message |-> "", confidence |-> 0, provider |-> None]
\* a function applied on its own: its input and output; for isRateLimited the
\* answer, the rate state it found and the time of the call, with the requests
\* recorded (n) since the one at time `first` that opened the current window;
\* for parseAIResponse the serial numbers of the request and the fields added
NoProbe == [fn |-> None, input |-> <<>>, output |-> NoReply, applied |-> FALSE,
            limited |-> FALSE, before |-> NoState, at |-> 0, first |-> 0, n |-> 0,
            serials |-> <<>>, suggestions |-> <<>>,
            faultCodeInfo |-> [present |-> FALSE],
            troubleshootingSteps |-> [present |-> FALSE], threw |-> FALSE,
            recorded |-> <<>>,
            answer |-> [kind |-> "none",
                        data |-> [shape |-> "null",
                                  content |-> [type |-> "undefined", value |-> ""]]]]

getOfflineFallbackResponse_FaultFirst(message) ==
    LET lowerMessage == toLowerCase(message)
        fallbackMessage ==
            IF Includes(lowerMessage, "fault") \/ Includes(lowerMessage, "error")
                    \/ Includes(lowerMessage, "code")
            THEN OFFLINE_FAULT
            ELSE IF Includes(lowerMessage, "part") \/ Includes(lowerMessage, "component")
            THEN OFFLINE_PARTS
            ELSE IF Includes(lowerMessage, "maintenance") \/ Includes(lowerMessage, "service")
            THEN OFFLINE_MAINTENANCE
            ELSE OFFLINE_DEFAULT
    IN  [message |-> fallbackMessage, confidence |-> CONFIDENCE_OFFLINE,
         provider |-> "Offline Fallback"]

\* the offline text under the label and confidence of the configuration reply
getOfflineFallbackResponse_ConfigLabel(message) ==
    [getOfflineFallbackResponse_FaultFirst(message) EXCEPT
        !.confidence = CONFIDENCE_CONFIG, !.provider = "Configuration Helper"]

getOfflineFallbackResponse(message) ==
    LET lowerMessage == toLowerCase(message)
        fallbackMessage ==
            IF Includes(lowerMessage, "part") \/ Includes(lowerMessage, "component")
            THEN OFFLINE_PARTS
            ELSE IF Includes(lowerMessage, "fault") \/ Includes(lowerMessage, "error")
                    \/ Includes(lowerMessage, "code")
            THEN OFFLINE_FAULT
            ELSE IF Includes(lowerMessage, "maintenance") \/ Includes(lowerMessage, "service")
            THEN OFFLINE_MAINTENANCE
            ELSE OFFLINE_DEFAULT
    IN  [message |-> fallbackMessage, confidence |-> CONFIDENCE_OFFLINE,
         provider |-> "Offline Fallback"]

getConfigurationRequiredResponse(message) ==
    [message |-> CONFIG_REQUIRED, confidence |-> CONFIDENCE_CONFIG,
     provider |-> "Configuration Helper"]

\* the response object parseAIResponse starts from; the structured fields it
\* may add do not touch message, confidence or provider
parseAIResponse(aiMessage) ==
    [message |-> aiMessage, confidence |-> CONFIDENCE_PARSED, provider |-> ""]

(***************************************************************************)
(* Response Parser.  The raw text is the sequence of its tokens: words,    *)
(* the keywords of the response format, punctuation, " " and "\n".  A      *)
(* regular expression is the sequence of its elements, a literal or a      *)
(* repeated character class, matched by backtracking as String.match does. *)
(***************************************************************************)
Lit(tok) == [kind |-> "lit", tok |-> tok, cls |-> "", min |-> 0, greedy |-> TRUE, cap |-> 0]
Rep(cls, min, greedy, cap) ==
    [kind |-> "rep", tok |-> "", cls |-> cls, min |-> min, greedy |-> greedy, cap |-> cap]
\* an alternation of literals, and one character sequence of a class
Alt(toks) == [kind |-> "alt", toks |-> toks]
One(cls) == [kind |-> "one", cls |-> cls]

\* \s, [^(], [^)], [^\n], [^\s], [\s\S], \d+\.
InClass(tok, cls) ==
    CASE cls = "space"    -> tok \in {" ", "\n"}
      [] cls = "number"   -> tok \in {"1.", "2.", "3."}
      [] cls = "notOpen"  -> tok # "("
      [] cls = "notClose" -> tok # ")"
      [] cls = "notNL"    -> tok # "\n"
      [] cls = "notSpace" -> tok \notin {" ", "\n"}
      [] cls = "any"      -> TRUE

\* the keywords a token ends with: a match may begin inside the token
Carried(tok) ==
    CASE tok = "replacement part:" -> {"replacement part:", "part:"}
      [] tok = "recommended actions:" -> {"recommended actions:", "actions:"}
      [] tok = "troubleshooting steps:" -> {"troubleshooting steps:", "steps:"}
      [] OTHER -> {tok}

\* /Part:\s*([^(]+)\s*\(Part #:\s*([^)]+)\)\s*-\s*([^\n]+)/
PART_PATTERN ==
    <<Lit("part:"), Rep("space", 0, TRUE, 0), Rep("notOpen", 1, TRUE, 1),
      Rep("space", 0, TRUE, 0), Lit("("), Lit("part #:"), Rep("space", 0, TRUE, 0),
      Rep("notClose", 1, TRUE, 2), Lit(")"), Rep("space", 0, TRUE, 0), Lit("-"),
      Rep("space", 0, TRUE, 0), Rep("notNL", 1, TRUE, 3)>>

\* /Fault Code:\s*([^\s]+)\s*-\s*([^\n]+)[\s\S]*?Severity:\s*([^\n]+)[\s\S]*?
\*  Possible Causes:\s*([^\n]+)[\s\S]*?Recommended Actions:\s*([^\n]+)/
FAULT_PATTERN ==
    <<Lit("fault code:"), Rep("space", 0, TRUE, 0), Rep("notSpace", 1, TRUE, 1),
      Rep("space", 0, TRUE, 0), Lit("-"), Rep("space", 0, TRUE, 0),
      Rep("notNL", 1, TRUE, 2), Rep("any", 0, FALSE, 0),
      Lit("severity:"), Rep("space", 0, TRUE, 0), Rep("notNL", 1, TRUE, 3),
      Rep("any", 0, FALSE, 0),
      Lit("possible causes:"), Rep("space", 0, TRUE, 0), Rep("notNL", 1, TRUE, 4),
      Rep("any", 0, FALSE, 0),
      Lit("recommended actions:"), Rep("space", 0, TRUE, 0), Rep("notNL", 1, TRUE, 5)>>

\* /(?:Steps?|Actions?):\s*\n((?:\d+\..*\n?)+)/ up to the number that opens the group
STEPS_PATTERN ==
    <<Alt({"step:", "steps:", "action:", "actions:"}), Rep("space", 0, TRUE, 0),
      Lit("\n"), One("number")>>

NoCaptures == [g \in 1..5 |-> <<>>]
NoMatch == [ok |-> FALSE, from |-> 0, to |-> 0, caps |-> NoCaptures]

\* the least of a set of numbers
Least(S) == CHOOSE c \in S : \A d \in S : c <= d

\* the tokens of the class that follow one another from position ti on: up to
\* the first token that is not of the class, or to the end of the text
RunLength(text, ti, cls) ==
    (CHOOSE k \in ti..(Len(text) + 1) :
         /\ k > Len(text) \/ ~InClass(text[k], cls)
         /\ \A j \in ti..(k - 1) : InClass(text[j], cls)) - ti

\* element pi of the pattern can begin at position ti of the text (flag i); a
\* repetition can begin anywhere
Fits(pat, pi, text, ti) ==
    IF pi > Len(pat) THEN TRUE
    ELSE IF pat[pi].kind = "lit"
    THEN /\ ti <= Len(text)
         /\ \/ pat[pi].tok = LowerToken(text[ti])
            \/ pi = 1 /\ pat[pi].tok \in Carried(LowerToken(text[ti]))
    ELSE IF pat[pi].kind = "alt"
    THEN /\ ti <= Len(text)
         /\ \/ LowerToken(text[ti]) \in pat[pi].toks
            \/ pi = 1 /\ pat[pi].toks \cap Carried(LowerToken(text[ti])) # {}
    ELSE IF pat[pi].kind = "one"
    THEN ti <= Len(text) /\ InClass(text[ti], pat[pi].cls)
    ELSE TRUE

\* of the numbers lo..hi of times that repetition pi can be taken, the one the
\* engine tries first: the greatest (greedy) or the least (lazy) after which
\* the next element can begin, since the attempts with the others fail at
\* once; -1 when there is none
Within(pat, pi, text, ti, lo, hi) ==
    IF \A c \in lo..hi : ~Fits(pat, pi + 1, text, ti + c) THEN -1
    ELSE IF pat[pi].greedy
    THEN hi - Least({d \in 0..(hi - lo) : Fits(pat, pi + 1, text, ti + hi - d)})
    ELSE Least({c \in lo..hi : Fits(pat, pi + 1, text, ti + c)})

\* the number of times the engine tries repetition pi next when it has come to
\* n: at most n times when greedy, at least n times when lazy
NextCount(pat, pi, text, ti, n) ==
    IF pat[pi].greedy
    THEN Within(pat, pi, text, ti, pat[pi].min,
                IF n < RunLength(text, ti, pat[pi].cls)
                THEN n ELSE RunLength(text, ti, pat[pi].cls))
    ELSE Within(pat, pi, text, ti, IF n < pat[pi].min THEN pat[pi].min ELSE n,
                RunLength(text, ti, pat[pi].cls))

\* the number a repetition is tried with first: as many times as can be when
\* greedy, as few when lazy
Start(pat, pi, text) ==
    IF pi <= Len(pat) /\ pat[pi].kind = "rep" /\ pat[pi].greedy THEN Len(text) ELSE 0

\* the elements an attempt of repetition pi passes: the repetition, and the
\* element after it when NextCount has seen it fit
Passed(pat, pi) == IF pi < Len(pat) /\ pat[pi + 1].kind # "rep" THEN 2 ELSE 1

\* the position after k repetitions of element pi from position ti and the
\* elements passed with them; position 0, where nothing matches, when there
\* is no number of repetitions left
Onward(pat, pi, ti, k) == IF k < 0 THEN 0 ELSE ti + k + Passed(pat, pi) - 1

\* the pattern from element pi on against the text from position ti on, a
\* repetition at pi being tried from n times on; the captures are those of
\* the elements from pi on
RECURSIVE Match(_, _, _, _, _)
RECURSIVE TryRep(_, _, _, _, _)
Match(pat, pi, text, ti, n) ==
    CASE ti = 0 -> NoMatch
      [] ti > 0 /\ pi > Len(pat) ->
             [ok |-> TRUE, from |-> 0, to |-> ti - 1, caps |-> NoCaptures]
      [] ti > 0 /\ pi <= Len(pat) /\ pat[pi].kind = "rep" ->
             TryRep(pat, pi, text, ti, NextCount(pat, pi, text, ti, n))
      [] ti > 0 /\ pi <= Len(pat) /\ pat[pi].kind # "rep" /\ Fits(pat, pi, text, ti) ->
             Match(pat, pi + 1, text, ti + 1, Start(pat, pi + 1, text))
      [] OTHER -> NoMatch

\* the attempt with k repetitions of element pi, rest being the match of the
\* rest of the pattern after them: the match, the k repetitions being the
\* capture of a capturing group, or the next attempt, with fewer (greedy) or
\* more (lazy) repetitions
Settle(pat, pi, text, ti, k, rest) ==
    IF rest.ok
    THEN IF pat[pi].cap = 0 THEN rest
         ELSE [rest EXCEPT !.caps[pat[pi].cap] = SubSeq(text, ti, ti + k - 1)]
    ELSE IF k < 0 THEN NoMatch
    ELSE Match(pat, pi, text, ti, IF pat[pi].greedy THEN k - 1 ELSE k + 1)

\* the attempt with k repetitions of element pi
TryRep(pat, pi, text, ti, k) ==
    Settle(pat, pi, text, ti, k,
           Match(pat, pi + Passed(pat, pi), text, Onward(pat, pi, ti, k),
                 Start(pat, pi + Passed(pat, pi), text)))

\* the match that starts at position k, or the leftmost one after it
RECURSIVE Search(_, _, _)
SearchFrom(pat, text, k, found) ==
    IF found.ok THEN [found EXCEPT !.from = k] ELSE Search(pat, text, k + 1)

\* text.match(pattern): the leftmost match that starts at position i or later;
\* the positions where the first element cannot begin are passed over
Search(pat, text, i) ==
    IF \A c \in i..Len(text) : ~Fits(pat, 1, text, c) THEN NoMatch
    ELSE SearchFrom(pat, text, Least({c \in i..Len(text) : Fits(pat, 1, text, c)}),
                    Match(pat, 1, text,
                          Least({c \in i..Len(text) : Fits(pat, 1, text, c)}),
                          Start(pat, 1, text)))

\* text.match(pattern) with flag g: the matched substrings, left to right
RECURSIVE MatchAll(_, _, _)
MatchAll(pat, text, i) ==
    LET found == Search(pat, text, i)
    IN  IF ~found.ok THEN <<>>
        ELSE <<SubSeq(text, found.from, found.to)>> \o MatchAll(pat, text, found.to + 1)

\* split(',').map(c => c.trim())
RECURSIVE SplitTrim(_, _)
SplitTrim(str, piece) ==
    IF ~Includes(str, piece) THEN <<Trim(str)>>
    ELSE LET i == CHOOSE k \in 1..Len(str) :
                      str[k] = piece /\ \A j \in 1..(k - 1) : str[j] # piece
         IN  <<Trim(SubSeq(str, 1, i - 1))>> \o SplitTrim(SubSeq(str, i + 1, Len(str)), piece)

\* request.context?.equipmentSerialNumbers
Undefined == <<"undefined">>
DEFAULT_REASON == <<"AI recommended based on your query">>

\* Math.floor(Math.random() * 500) + 50 and Math.random() > 0.3: the least
\* and the largest price, out of stock and in stock
RandomDraws == {[price |-> 50, inStock |-> FALSE], [price |-> 549, inStock |-> TRUE]}

\* `x?.trim() || fallback`
TrimOr(str, fallback) == IF Trim(str) = <<>> THEN fallback ELSE Trim(str)

\* response.suggestions without the two random fields (<<>> when partMatches
\* is null and the field stays absent)
extractSuggestions(aiMessage, serials) ==
    LET partMatches == MatchAll(PART_PATTERN, aiMessage, 1)
    IN  [k \in 1..Len(partMatches) |->
            LET again == Search(PART_PATTERN, partMatches[k], 1)
            IN  [partNumber |-> TrimOr(again.caps[2], <<>>),
                 name |-> TrimOr(again.caps[1], <<>>),
                 compatibility |-> IF serials = Undefined THEN <<>> ELSE serials,
                 price |-> 0,
                 inStock |-> FALSE,
                 aiRecommended |-> TRUE,
                 reasonForSuggestion |-> TrimOr(again.caps[3], DEFAULT_REASON)]]

\* the random fields, one draw per suggestion
Priced(suggestions, draws) ==
    [k \in 1..Len(suggestions) |->
        [suggestions[k] EXCEPT !.price = draws[k].price, !.inStock = draws[k].inStock]]

NoFaultCodeInfo ==
    [present |-> FALSE, code |-> <<>>, description |-> <<>>, severity |-> <<>>,
     possibleCauses |-> <<>>, recommendedActions |-> <<>>, relatedParts |-> <<>>]

\* response.faultCodeInfo (present is FALSE when the field stays absent)
extractFaultCodeInfo(aiMessage) ==
    LET faultCodeMatch == Search(FAULT_PATTERN, aiMessage, 1)
    IN  IF ~faultCodeMatch.ok THEN NoFaultCodeInfo
        ELSE [present |-> TRUE,
              code |-> TrimOr(faultCodeMatch.caps[1], <<>>),
              description |-> TrimOr(faultCodeMatch.caps[2], <<>>),
              severity |-> TrimOr(toLowerCase(Trim(faultCodeMatch.caps[3])), <<"medium">>),
              possibleCauses |-> SplitTrim(faultCodeMatch.caps[4], ","),
              recommendedActions |-> SplitTrim(faultCodeMatch.caps[5], ","),
              relatedParts |-> <<>>]

\* split('\n')
RECURSIVE Split(_, _)
Split(str, piece) ==
    IF ~Includes(str, piece) THEN <<str>>
    ELSE LET i == CHOOSE k \in 1..Len(str) :
                      str[k] = piece /\ \A j \in 1..(k - 1) : str[j] # piece
         IN  <<SubSeq(str, 1, i - 1)>> \o Split(SubSeq(str, i + 1, Len(str)), piece)

\* (?:\d+\..*\n?)+ from the number at position i on: the position where it ends
RECURSIVE StepsEnd(_, _)
StepsEnd(text, i) ==
    LET last == i + RunLength(text, i + 1, "notNL")
    IN  IF last + 1 <= Len(text) /\ text[last + 1] = "\n"
        THEN IF last + 2 <= Len(text) /\ InClass(text[last + 2], "number")
             THEN StepsEnd(text, last + 2)
             ELSE last + 1
        ELSE last

NotBlank(step) == Trim(step) # <<>>

\* step.replace(/^\d+\.\s*/, '').trim()
StripNumber(step) ==
    IF step # <<>> /\ InClass(step[1], "number")
    THEN Trim(SubSeq(step, 2 + RunLength(step, 2, "space"), Len(step)))
    ELSE Trim(step)

NoTroubleshootingSteps == [present |-> FALSE, steps |-> <<>>]

\* response.troubleshootingSteps (present is FALSE when the field stays absent)
extractTroubleshootingSteps(aiMessage) ==
    LET stepsMatch == Search(STEPS_PATTERN, aiMessage, 1)
    IN  IF ~stepsMatch.ok THEN NoTroubleshootingSteps
        ELSE LET block == SubSeq(aiMessage, stepsMatch.to, StepsEnd(aiMessage, stepsMatch.to))
                 lines == SelectSeq(Split(block, "\n"), NotBlank)
             IN  [present |-> TRUE,
                  steps |-> [k \in 1..Len(lines) |-> StripNumber(lines[k])]]

\* parseAIResponse on a raw text given as its tokens: the response it returns,
\* before the random fields of the suggestions are drawn
parseRawText(aiMessage, serials) ==
    [message |-> aiMessage, confidence |-> CONFIDENCE_PARSED, provider |-> "",
     suggestions |-> extractSuggestions(aiMessage, serials),
     faultCodeInfo |-> extractFaultCodeInfo(aiMessage),
     troubleshootingSteps |-> extractTroubleshootingSteps(aiMessage)]

\* a parser that fails when a pattern finds nothing
ParseResult_ThrowsOnNull(aiMessage, serials) ==
    [threw |-> MatchAll(PART_PATTERN, aiMessage, 1) = <<>>,
     response |-> parseRawText(aiMessage, serials)]

\* `return this.parseAIResponse(aiMessage, request)` in callGroq, callTogether,
\* callCohere and callHuggingFace: String.match returns null when nothing
\* matches, and parseAIResponse tests for it
ParseResult(aiMessage, serials) ==
    [threw |-> FALSE, response |-> parseRawText(aiMessage, serials)]

(***************************************************************************)
(* Provider Invoker: what a provider can answer, and what callGroq,        *)
(* callTogether, callCohere and callHuggingFace make of it after the       *)
(* fetch.                                                                  *)
(***************************************************************************)
\* the completion field of the envelope: a JSON value
Contents == {[type |-> "undefined", value |-> ""],
             [type |-> "string", value |-> ""],
             [type |-> "string", value |-> "Check the hydraulic filter."],
             [type |-> "number", value |-> "42"]}

\* `data`, the parsed body: null, an object without the array, an array
\* without elements, or an array whose first element holds the content
Bodies == {[shape |-> "null", content |-> [type |-> "undefined", value |-> ""]],
           [shape |-> "no_array", content |-> [type |-> "undefined", value |-> ""]],
           [shape |-> "empty_array", content |-> [type |-> "undefined", value |-> ""]]}
          \cup {[shape |-> "element", content |-> c] : c \in Contents}

\* the fetch rejects, answers a non-success status, answers a body that is
\* no JSON, or answers a success status with a JSON body
Responses == {[kind |-> k, data |-> [shape |-> "null",
                                     content |-> [type |-> "undefined", value |-> ""]]] :
                 k \in {"network_error", "http_error", "bad_json"}}
             \cup {[kind |-> "ok", data |-> d] : d \in Bodies}

Threw == [threw |-> TRUE, response |-> NoReply]

\* `content || placeholder`, then parseAIResponse (aiMessage.match throws on a non-string)
Completion_NoPlaceholder(content) ==
    IF content.type = "undefined" THEN [threw |-> FALSE, response |-> parseAIResponse("")]
    ELSE IF content.type = "string"
    THEN [threw |-> FALSE, response |-> parseAIResponse(content.value)]
    ELSE Threw

Completion(content) ==
    IF content.type = "undefined" \/ (content.type = "string" /\ content.value = "")
    THEN [threw |-> FALSE, response |-> parseAIResponse(PLACEHOLDER)]
    ELSE IF content.type = "string"
    THEN [threw |-> FALSE, response |-> parseAIResponse(content.value)]
    ELSE Threw

\* data.choices[0]?.message?.content, data.generations[0]?.text, data[0]?.generated_text
\* and what follows, once the fetch has settled with `response`
CallResult(provider, response) ==
    IF response.kind # "ok" THEN Threw
    ELSE IF response.data.shape = "null" THEN Threw
    ELSE IF response.data.shape = "no_array"
    THEN (IF provider = "HUGGING_FACE"
          THEN Completion([type |-> "undefined", value |-> ""]) ELSE Threw)
    ELSE IF response.data.shape = "empty_array"
    THEN Completion([type |-> "undefined", value |-> ""])
    ELSE Completion(response.data.content)


(***************************************************************************)
(* Fallback Orchestrator.                                                  *)
(***************************************************************************)
RequestMessages == {<<"Part", "FAULT">>}
RequestProviders == Providers \cup {None}

IdleCall ==
    [pc |-> "idle", message |-> <<>>, provider |-> None, availableProviders |-> <<>>,
     actualProvider |-> None, primaryLimited |-> FALSE, idx |-> 0, log |-> <<>>,
     reply |-> NoReply]

InFlight(s) == calls[s].pc \in {"awaitPrimary", "awaitFallback"}

\* the network request leaves for `provider` at time t: the 60 s interval that
\* began with the first request counted in `sent` is over, or the request falls in it
NoteSent(snt, provider, t) ==
    IF ~snt.on THEN snt
    ELSE IF snt.by[provider].n = 0 \/ t >= snt.by[provider].start + WINDOW_MS
    THEN [snt EXCEPT !.by[provider] = [start |-> t, n |-> 1]]
    ELSE [snt EXCEPT !.by[provider].n = @ + 1]

Entry(provider, phase) == [provider |-> provider, phase |-> phase, result |-> "pending"]

SetLast(log, result) == [log EXCEPT ![Len(log)].result = result]

FallbackScan_NoSkip(rc, providers, i, t) ==
    IF i > Len(providers) THEN [idx |-> 0, rc |-> rc] ELSE [idx |-> i, rc |-> rc]

\* a loop that looks at the first provider only
FallbackScan_FirstOnly(rc, providers, i, t) ==
    IF i > 1 \/ i > Len(providers) THEN [idx |-> 0, rc |-> rc]
    ELSE LET lim == isRateLimited(rc, providers[i], t)
         IN  [idx |-> IF lim.limited THEN 0 ELSE i, rc |-> lim.rc]

\* the `for` loop of tryFallbackProviders from position i on, up to the first
\* provider it calls: idx is that position, 0 when the loop runs out
RECURSIVE FallbackScan(_, _, _, _)
FallbackScan(rc, providers, i, t) ==
    IF i > Len(providers) THEN [idx |-> 0, rc |-> rc]
    ELSE LET lim == isRateLimited(rc, providers[i], t)
         IN  IF ~lim.limited /\ getValidApiKey(providers[i])
             THEN [idx |-> i, rc |-> lim.rc]
             ELSE FallbackScan(lim.rc, providers, i + 1, t)

\* a fallback pass that counts the request that has just failed
tryFallbackProviders_CountsFailure(c, rc, snt, i, t) ==
    LET counted == IF c.log # <<>> /\ c.log[Len(c.log)].result = "failed"
                   THEN updateRequestCount(rc, c.log[Len(c.log)].provider, t)
                   ELSE rc
        scan == FallbackScan(counted, c.availableProviders, i, t)
    IN  IF scan.idx = 0
        THEN [call |-> [c EXCEPT !.pc = "done", !.idx = 0,
                                 !.reply = getOfflineFallbackResponse(c.message)],
              rc |-> scan.rc, sent |-> snt]
        ELSE [call |-> [c EXCEPT !.pc = "awaitFallback", !.idx = scan.idx,
                                 !.log = Append(@, Entry(c.availableProviders[scan.idx],
                                                         "fallback"))],
              rc |-> scan.rc,
              sent |-> NoteSent(snt, c.availableProviders[scan.idx], t)]

\* tryFallbackProviders resumed at position i: the call awaits the fetch to the
\* next provider it may call, or returns the offline reply
tryFallbackProviders(c, rc, snt, i, t) ==
    LET scan == FallbackScan(rc, c.availableProviders, i, t)
    IN  IF scan.idx = 0
        THEN [call |-> [c EXCEPT !.pc = "done", !.idx = 0,
                                 !.reply = getOfflineFallbackResponse(c.message)],
              rc |-> scan.rc, sent |-> snt]
        ELSE [call |-> [c EXCEPT !.pc = "awaitFallback", !.idx = scan.idx,
                                 !.log = Append(@, Entry(c.availableProviders[scan.idx],
                                                         "fallback"))],
              rc |-> scan.rc,
              sent |-> NoteSent(snt, c.availableProviders[scan.idx], t)]

\* `for (const provider of providers)`: entered from the catch block of a failed
\* primary call, the loop starts at the first available provider all the same
FallbackStart(c) == 1

\* `request.provider || this.currentProvider`
wantedProvider_IgnoreCurrent(provider) ==
    IF provider # None THEN provider ELSE "GROQ"

wantedProvider(provider) ==
    IF provider # None THEN provider ELSE currentProvider

\* `availableProviders.includes(provider) ? provider : availableProviders[0]`
actualProviderFor_First(availableProviders, provider) == availableProviders[1]

actualProviderFor(availableProviders, provider) ==
    IF SeqIncludes(availableProviders, provider) THEN provider ELSE availableProviders[1]

\* the try/catch around the primary call, and the one inside the fallback loop
\* a fallback loop without its try/catch
FallbackCatches_Rethrows == FALSE

PrimaryCatches == TRUE
FallbackCatches == TRUE

\* an exception that no catch block takes rejects the promise of processMessage
Rejected(c) == [c EXCEPT !.pc = "rejected", !.log = SetLast(@, "failed")]

\* `{ ...response, provider: FREE_LLM_PROVIDERS[provider].name }`
Labelled_Keep(response, provider) == response

Labelled(response, provider) ==
    [response EXCEPT !.provider = FREE_LLM_PROVIDERS[provider].name]

\* processMessage from its entry to its first await, or to its return
ProcessMessage(s, message, provider) ==
    /\ ~InFlight(s)
    /\ \A t \in Slots : t < s => InFlight(t)
    /\ started < MaxCalls
    /\ started' = started + 1
    /\ UNCHANGED <<env, screen, currentProvider, now, probe>>
    /\ LET availableProviders == getAvailableProviders
           c0 == [IdleCall EXCEPT !.message = message, !.provider = provider,
                                  !.availableProviders = availableProviders]
       IN  IF ~hasConfiguredProviders \/ Len(availableProviders) = 0
           THEN /\ calls' = [calls EXCEPT ![s] =
                       [c0 EXCEPT !.pc = "done", !.availableProviders = <<>>,
                                  !.reply = getConfigurationRequiredResponse(message)]]
                /\ UNCHANGED <<requestCounts, sent>>
           ELSE LET actualProvider ==
                        actualProviderFor(availableProviders, wantedProvider(provider))
                    lim == isRateLimited(requestCounts, actualProvider, now)
                    c1 == [c0 EXCEPT !.actualProvider = actualProvider,
                                     !.primaryLimited = lim.limited]
                    fb == tryFallbackProviders(c1, lim.rc, sent, 1, now)
                IN  IF lim.limited \/ ~getValidApiKey(actualProvider)
                    THEN /\ calls' = [calls EXCEPT ![s] = fb.call]
                         /\ requestCounts' = fb.rc
                         /\ sent' = fb.sent
                    ELSE /\ calls' = [calls EXCEPT ![s] =
                                [c1 EXCEPT !.pc = "awaitPrimary",
                                           !.log = <<Entry(actualProvider, "primary")>>]]
                         /\ requestCounts' = lim.rc
                         /\ sent' = NoteSent(sent, actualProvider, now)

\* the fetch of the primary provider settles: the reply is returned and the
\* request recorded, or the catch block enters tryFallbackProviders
PrimaryResponds(s, response) ==
    /\ calls[s].pc = "awaitPrimary"
    /\ UNCHANGED <<env, screen, currentProvider, now, started, probe>>
    /\ LET c == calls[s]
           res == CallResult(c.actualProvider, response)
           failed == [c EXCEPT !.log = SetLast(@, "failed")]
           fb == tryFallbackProviders(failed, requestCounts, sent, FallbackStart(c), now)
       IN  IF res.threw /\ ~PrimaryCatches
           THEN /\ calls' = [calls EXCEPT ![s] = Rejected(c)]
                /\ UNCHANGED <<requestCounts, sent>>
           ELSE IF res.threw
           THEN /\ calls' = [calls EXCEPT ![s] = fb.call]
                /\ requestCounts' = fb.rc
                /\ sent' = fb.sent
           ELSE /\ calls' = [calls EXCEPT ![s] =
                       [c EXCEPT !.pc = "done", !.log = SetLast(@, "ok"),
                                 !.reply = Labelled(res.response, c.actualProvider)]]
                /\ requestCounts' = updateRequestCount(requestCounts, c.actualProvider, now)
                /\ UNCHANGED sent

\* the fetch of a fallback provider settles: the reply is returned and the
\* provider becomes the current one, or the loop continues
FallbackResponds(s, response) ==
    /\ calls[s].pc = "awaitFallback"
    /\ UNCHANGED <<env, screen, now, started, probe>>
    /\ LET c == calls[s]
           provider == c.availableProviders[c.idx]
           res == CallResult(provider, response)
           failed == [c EXCEPT !.log = SetLast(@, "failed")]
           fb == tryFallbackProviders(failed, requestCounts, sent, c.idx + 1, now)
       IN  IF res.threw /\ ~FallbackCatches
           THEN /\ calls' = [calls EXCEPT ![s] = Rejected(c)]
                /\ UNCHANGED <<requestCounts, sent, currentProvider>>
           ELSE IF res.threw
           THEN /\ calls' = [calls EXCEPT ![s] = fb.call]
                /\ requestCounts' = fb.rc
                /\ sent' = fb.sent
                /\ UNCHANGED currentProvider
           ELSE /\ calls' = [calls EXCEPT ![s] =
                       [c EXCEPT !.pc = "done", !.log = SetLast(@, "ok"),
                                 !.reply = Labelled(res.response, provider)]]
                /\ currentProvider' = provider
                /\ UNCHANGED <<requestCounts, sent>>

\* time passes
Tick ==
    /\ now + ClockStep <= MaxTime
    /\ now' = now + ClockStep
    /\ UNCHANGED <<env, screen, currentProvider, requestCounts, calls, started, sent, probe>>

(***************************************************************************)
(* The service: constructed (currentProvider = 'GROQ', no request counted) *)
(* or with a window opened at time 0 in which up to rateLimit requests of  *)
(* a configured provider were sent and recorded.                           *)
(***************************************************************************)
RateStates(provider) ==
    {NoState} \cup
    {[count |-> FREE_LLM_PROVIDERS[provider].rateLimit - Headroom,
      resetTime |-> WINDOW_MS]}

InitService(observed) ==
    /\ \E configured \in SUBSET Providers :
          env = [p \in Providers |-> IF p \in configured THEN ValidKey ELSE UnsetKey[p]]
    /\ currentProvider = "GROQ"
    /\ requestCounts \in [Providers -> UNION {RateStates(p) : p \in Providers}]
    /\ \A p \in Providers :
          /\ requestCounts[p] \in RateStates(p)
          /\ ~Configured(p) => requestCounts[p] = NoState
    /\ now = 0
    /\ screen = NoScreen
    /\ calls = [s \in Slots |-> IdleCall]
    /\ started = 0
    /\ sent = [on |-> observed,
               by |-> [p \in Providers |->
                         [start |-> 0, n |-> IF observed THEN requestCounts[p].count ELSE 0]]]
    /\ probe = NoProbe

Init == InitService(FALSE)

\* the caller sends a message once the reply to the previous one has arrived
SendMessage(s, message, provider) ==
    /\ \A t \in Slots : ~InFlight(t)
    /\ ProcessMessage(s, message, provider)

Next ==
    \/ \E s \in Slots, message \in RequestMessages, provider \in RequestProviders :
          SendMessage(s, message, provider)
    \/ \E s \in Slots, response \in Responses : PrimaryResponds(s, response)
    \/ \E s \in Slots, response \in Responses : FallbackResponds(s, response)
    \/ Tick

Spec == Init /\ [][Next]_vars

\* the service when every fetch it issues settles, with a response or an
\* error: `await fetch` resumes the call once the promise settles
ProviderSettles(s) ==
    \/ \E response \in Responses : PrimaryResponds(s, response)
    \/ \E response \in Responses : FallbackResponds(s, response)

\* every configured provider is Headroom requests short of its budget
InitSettling ==
    /\ \E configured \in SUBSET Providers :
          env = [p \in Providers |-> IF p \in configured THEN ValidKey ELSE UnsetKey[p]]
    /\ currentProvider = "GROQ"
    /\ requestCounts =
           [p \in Providers |->
               IF Configured(p)
               THEN [count |-> FREE_LLM_PROVIDERS[p].rateLimit - Headroom,
                     resetTime |-> WINDOW_MS]
               ELSE NoState]
    /\ now = 0
    /\ screen = NoScreen
    /\ calls = [s \in Slots |-> IdleCall]
    /\ started = 0
    /\ sent = [on |-> FALSE, by |-> [p \in Providers |-> [start |-> 0, n |-> 0]]]
    /\ probe = NoProbe

SpecSettling ==
    InitSettling /\ [][Next]_vars /\ \A s \in Slots : WF_vars(ProviderSettles(s))

\* the same service with the requests it sends counted per provider
InitSends == InitService(TRUE)

SpecSends == InitSends /\ [][Next]_vars

\* the singleton called again while earlier calls are still awaiting their
\* provider: nothing in processMessage waits for a call in flight.  Every
\* configured provider is Headroom requests short of its budget in the window
\* opened at time 0.
OverlapSlots == 1..(MaxSlots + 1)

InitOverlap ==
    /\ \E configured \in SUBSET Providers :
          env = [p \in Providers |-> IF p \in configured THEN ValidKey ELSE UnsetKey[p]]
    /\ currentProvider = "GROQ"
    /\ requestCounts =
           [p \in Providers |->
               IF Configured(p)
               THEN [count |-> FREE_LLM_PROVIDERS[p].rateLimit - Headroom,
                     resetTime |-> WINDOW_MS]
               ELSE NoState]
    /\ now = 0
    /\ screen = NoScreen
    /\ calls = [s \in OverlapSlots |-> IdleCall]
    /\ started = 0
    /\ sent = [on |-> FALSE, by |-> [p \in Providers |-> [start |-> 0, n |-> 0]]]
    /\ probe = NoProbe

NextOverlap ==
    \/ \E s \in OverlapSlots, message \in RequestMessages, provider \in RequestProviders :
          ProcessMessage(s, message, provider)
    \/ \E s \in OverlapSlots, response \in Responses : PrimaryResponds(s, response)
    \/ \E s \in OverlapSlots, response \in Responses : FallbackResponds(s, response)
    \/ Tick

SpecOverlap == InitOverlap /\ [][NextOverlap]_vars

\* the constructed service in the shipped environment, with or without a real
\* key for Together AI, and with any credential in one of the variables
InitKeys ==
    /\ \E p \in Providers, key \in Credentials,
          together \in {ValidKey, UnsetKey["TOGETHER"]} :
          env = [UnsetKey EXCEPT !["TOGETHER"] = together, ![p] = key]
    /\ currentProvider = "GROQ"
    /\ requestCounts = [p \in Providers |-> NoState]
    /\ now = 0
    /\ screen = NoScreen
    /\ calls = [s \in Slots |-> IdleCall]
    /\ started = 0
    /\ sent = [on |-> FALSE, by |-> [p \in Providers |-> [start |-> 0, n |-> 0]]]
    /\ probe = NoProbe

SpecKeys == InitKeys /\ [][Next]_vars

(***************************************************************************)
(* getOfflineFallbackResponse on its own: the constructed service with the *)
(* shipped example environment, and every message of up to MaxWords words. *)
(***************************************************************************)
OfflineMessages == UNION {[1..n -> Vocabulary] : n \in 0..MaxWords}

InitOffline ==
    /\ env = UnsetKey
    /\ currentProvider = "GROQ"
    /\ requestCounts = [p \in Providers |-> NoState]
    /\ now = 0
    /\ screen = NoScreen
    /\ calls = [s \in Slots |-> IdleCall]
    /\ started = 0
    /\ sent = [on |-> FALSE, by |-> [p \in Providers |-> [start |-> 0, n |-> 0]]]
    /\ \E message \in OfflineMessages :
          probe = [NoProbe EXCEPT !.fn = "getOfflineFallbackResponse", !.input = message]

ApplyOffline ==
    /\ probe.fn = "getOfflineFallbackResponse"
    /\ ~probe.applied
    /\ probe' = [probe EXCEPT !.output = getOfflineFallbackResponse(probe.input),
                              !.applied = TRUE]
    /\ UNCHANGED <<env, screen, currentProvider, requestCounts, now, calls, started, sent>>

NextOffline == ApplyOffline

SpecOffline == InitOffline /\ [][NextOffline]_vars

(***************************************************************************)
(* The Rate Limiter on its own: updateRequestCount and isRateLimited       *)
(* applied to one provider of the constructed service as time passes.      *)
(***************************************************************************)
InitRate ==
    /\ env = [p \in Providers |-> ValidKey]
    /\ currentProvider = "GROQ"
    /\ requestCounts = [p \in Providers |-> NoState]
    /\ now = 0
    /\ screen = NoScreen
    /\ calls = [s \in Slots |-> IdleCall]
    /\ started = 0
    /\ sent = [on |-> FALSE, by |-> [p \in Providers |-> [start |-> 0, n |-> 0]]]
    /\ \E provider \in Providers :
          probe = [NoProbe EXCEPT !.fn = "isRateLimited", !.input = <<provider>>]

\* the answer of the last isRateLimited belongs to the step that made it
Unapplied(pr) == [pr EXCEPT !.applied = FALSE, !.limited = FALSE,
                            !.before = NoState, !.at = 0]

RecordRequest ==
    /\ probe.fn = "isRateLimited"
    /\ LET provider == probe.input[1]
           opens == probe.n = 0 \/ now > probe.first + WINDOW_MS
       IN  /\ opens \/ probe.n < FREE_LLM_PROVIDERS[provider].rateLimit + MaxOver
           /\ requestCounts' = updateRequestCount(requestCounts, provider, now)
           /\ probe' = [Unapplied(probe) EXCEPT
                           !.first = IF opens THEN now ELSE @,
                           !.n = IF opens THEN 1 ELSE @ + 1]
    /\ UNCHANGED <<env, screen, currentProvider, now, calls, started, sent>>

CheckLimit ==
    /\ probe.fn = "isRateLimited"
    /\ LET provider == probe.input[1]
           lim == isRateLimited(requestCounts, provider, now)
       IN  /\ requestCounts' = lim.rc
           /\ probe' = [probe EXCEPT !.applied = TRUE, !.limited = lim.limited,
                                     !.before = requestCounts[provider], !.at = now]
    /\ UNCHANGED <<env, screen, currentProvider, now, calls, started, sent>>

RateTick ==
    /\ probe.fn = "isRateLimited"
    /\ now + RateStep <= RateMaxTime
    /\ now' = now + RateStep
    /\ probe' = Unapplied(probe)
    /\ UNCHANGED <<env, screen, currentProvider, requestCounts, calls, started, sent>>

NextRate == RecordRequest \/ CheckLimit \/ RateTick

SpecRate == InitRate /\ [][NextRate]_vars

(***************************************************************************)
(* Calls to one provider, one after the other, with the clock advancing at *)
(* any point.  probe.recorded holds, newest first, how many requests were   *)
(* recorded at `now` and at each earlier instant of the last 60 seconds.    *)
(***************************************************************************)
Instants == WINDOW_MS \div RateStep + 1

\* the providers followed: those with the smallest budget, 30 requests a minute
WindowProviders == {p \in Providers : FREE_LLM_PROVIDERS[p].rateLimit = 30}

InitWindow ==
    /\ env = [p \in Providers |-> ValidKey]
    /\ currentProvider = "GROQ"
    /\ requestCounts = [p \in Providers |-> NoState]
    /\ now = 0
    /\ screen = NoScreen
    /\ calls = [s \in Slots |-> IdleCall]
    /\ started = 0
    /\ sent = [on |-> FALSE, by |-> [p \in Providers |-> [start |-> 0, n |-> 0]]]
    /\ \E provider \in WindowProviders :
          probe = [NoProbe EXCEPT !.fn = "processMessage", !.input = <<provider>>,
                                  !.recorded = [k \in 1..Instants |-> 0]]

\* processMessage for the provider up to `await this.callLLMProvider`: the
\* throttle check, and the request issued unless the provider is throttled
CallStarts ==
    /\ probe.fn = "processMessage"
    /\ ~probe.applied
    /\ LET lim == isRateLimited(requestCounts, probe.input[1], now)
       IN  /\ requestCounts' = lim.rc
           /\ probe' = [probe EXCEPT !.applied = ~lim.limited]
    /\ UNCHANGED <<env, screen, currentProvider, now, calls, started, sent>>

\* the provider call settles: a success is recorded; a failure enters the
\* fallback pass, which records nothing and checks the provider again
\* (rechecked) unless a provider before it in the order answers
CallSettles(ok, rechecked) ==
    /\ probe.fn = "processMessage"
    /\ probe.applied
    /\ rechecked \/ (~ok /\ ProviderOrder[1] # probe.input[1])
    /\ IF ok
       THEN /\ requestCounts' = updateRequestCount(requestCounts, probe.input[1], now)
            /\ probe' = [probe EXCEPT !.applied = FALSE, !.recorded[1] = @ + 1]
       ELSE /\ requestCounts' = IF rechecked
                                THEN isRateLimited(requestCounts, probe.input[1], now).rc
                                ELSE requestCounts
            /\ probe' = [probe EXCEPT !.applied = FALSE]
    /\ UNCHANGED <<env, screen, currentProvider, now, calls, started, sent>>

WindowTick ==
    /\ probe.fn = "processMessage"
    /\ now + RateStep <= RateMaxTime
    /\ now' = now + RateStep
    /\ probe' = [probe EXCEPT !.recorded = <<0>> \o SubSeq(@, 1, Instants - 1)]
    /\ UNCHANGED <<env, screen, currentProvider, requestCounts, calls, started, sent>>

NextWindow ==
    \/ CallStarts
    \/ \E ok, rechecked \in BOOLEAN : CallSettles(ok, rechecked)
    \/ WindowTick

SpecWindow == InitWindow /\ [][NextWindow]_vars

(***************************************************************************)
(* parseAIResponse on its own: raw texts of up to MaxParagraphs            *)
(* paragraphs, each a line in the part format of the system prompt, a      *)
(* block in its fault-code format, or free text.                           *)
(***************************************************************************)
\* "Part: [Name] (Part #: [Number]) - [Brief description]"
PartLine(name, number, reason) ==
    <<"Part:", " ">> \o name \o <<" ", "(", "Part #:", " ">> \o number
        \o <<")", " ", "-", " ">> \o reason

\* "Fault Code: [Code] - [Description]", "Severity: [Low/Medium/High/Critical]",
\* "Possible Causes: [List]", "Recommended Actions: [Steps]"
FaultBlock(severity) ==
    <<"Fault Code:", " ", "E101", " ", "-", " ", "Low", " ", "pressure", "\n",
      "Severity:", " ">> \o severity \o
    <<"\n", "Possible Causes:", " ", "pump", ",", " ", "leak", "\n",
      "Recommended Actions:", " ", "replace", " ", "pump">>

PartParagraphs ==
    {[kind |-> "part", name |-> <<"Oil", " ", "Filter">>, number |-> <<"1R-0750">>,
      reason |-> <<"keeps", " ", "contaminants", " ", "out">>, severity |-> <<>>],
     [kind |-> "part", name |-> <<"Seal">>, number |-> <<"2J-3506">>,
      reason |-> <<"stops", " ", "leaks">>, severity |-> <<>>],
     [kind |-> "part", name |-> <<"Filter", " ", "(", "primary", ")">>,
      number |-> <<"1R-0751">>, reason |-> <<"cleans", " ", "fuel">>, severity |-> <<>>]}

Severities == {<<"High">>, <<"Severe">>, <<" ">>}

FaultParagraphs ==
    {[kind |-> "fault", name |-> <<>>, number |-> <<>>, reason |-> <<>>, severity |-> s] :
        s \in Severities}

TextParagraphs ==
    {[kind |-> k, name |-> <<>>, number |-> <<>>, reason |-> <<>>, severity |-> <<>>] :
        k \in {"intro", "plain", "steps"}}

Paragraphs == PartParagraphs \cup FaultParagraphs \cup TextParagraphs

Render(paragraph) ==
    CASE paragraph.kind = "part" ->
             PartLine(paragraph.name, paragraph.number, paragraph.reason)
      [] paragraph.kind = "fault" -> FaultBlock(paragraph.severity)
      [] paragraph.kind = "intro" ->
             <<"The", " ", "Replacement part:">>
      [] paragraph.kind = "plain" -> <<"Check", " ", "it.">>
      [] paragraph.kind = "steps" ->
             <<"Troubleshooting Steps:", "\n", "1.", " ", "Stop", "\n", "2.", " ", "Drain">>

\* the raw text: the paragraphs, one per line
RECURSIVE RawText(_)
RawText(paragraphs) ==
    IF paragraphs = <<>> THEN <<>>
    ELSE IF Len(paragraphs) = 1 THEN Render(paragraphs[1])
    ELSE Render(paragraphs[1]) \o <<"\n">> \o RawText(Tail(paragraphs))

SerialNumbers == {Undefined, <<"CAT0320">>}

InitParse ==
    /\ env = [p \in Providers |-> ValidKey]
    /\ currentProvider = "GROQ"
    /\ requestCounts = [p \in Providers |-> NoState]
    /\ now = 0
    /\ screen = NoScreen
    /\ calls = [s \in Slots |-> IdleCall]
    /\ started = 0
    /\ sent = [on |-> FALSE, by |-> [p \in Providers |-> [start |-> 0, n |-> 0]]]
    /\ \E paragraphs \in UNION {[1..n -> Paragraphs] : n \in 0..MaxParagraphs},
          serials \in SerialNumbers :
          probe = [NoProbe EXCEPT !.fn = "parseAIResponse", !.input = paragraphs,
                                  !.serials = serials]

ApplyParse ==
    /\ probe.fn = "parseAIResponse"
    /\ ~probe.applied
    /\ \E result \in {ParseResult(RawText(probe.input), probe.serials)} :
          \E draws \in [1..Len(result.response.suggestions) -> RandomDraws] :
              probe' = [probe EXCEPT
                          !.applied = TRUE,
                          !.threw = result.threw,
                          !.output = [message |-> result.response.message,
                                      confidence |-> result.response.confidence,
                                      provider |-> result.response.provider],
                          !.suggestions = Priced(result.response.suggestions, draws),
                          !.faultCodeInfo = result.response.faultCodeInfo,
                          !.troubleshootingSteps = result.response.troubleshootingSteps]
    /\ UNCHANGED <<env, screen, currentProvider, requestCounts, now, calls, started, sent>>

NextParse == ApplyParse

SpecParse == InitParse /\ [][NextParse]_vars

(***************************************************************************)
(* The try block of processMessage on its own: one provider, its           *)
(* credential real or the shipped placeholder, and one answer to its fetch. *)
(***************************************************************************)
InitInvoke ==
    /\ \E provider \in Providers, configured \in BOOLEAN, response \in Responses :
          /\ env = [UnsetKey EXCEPT ![provider] = IF configured THEN ValidKey ELSE @]
          /\ probe = [NoProbe EXCEPT !.fn = "callLLMProvider", !.input = <<provider>>,
                                     !.answer = response]
    /\ currentProvider = "GROQ"
    /\ requestCounts = [p \in Providers |-> NoState]
    /\ now = 0
    /\ screen = NoScreen
    /\ calls = [s \in Slots |-> IdleCall]
    /\ started = 0
    /\ sent = [on |-> FALSE, by |-> [p \in Providers |-> [start |-> 0, n |-> 0]]]

\* callLLMProvider, updateRequestCount and the labelled return of lines 175-181,
\* or the catch of line 182 (threw)
InvokeProvider ==
    /\ probe.fn = "callLLMProvider"
    /\ ~probe.applied
    /\ LET provider == probe.input[1]
           res == IF ~getValidApiKey(provider) THEN Threw
                  ELSE CallResult(provider, probe.answer)
       IN  /\ probe' = [probe EXCEPT
                           !.applied = TRUE,
                           !.threw = res.threw,
                           !.output = IF res.threw THEN NoReply
                                      ELSE Labelled(res.response, provider)]
           /\ requestCounts' = IF res.threw THEN requestCounts
                               ELSE updateRequestCount(requestCounts, provider, now)
    /\ UNCHANGED <<env, screen, currentProvider, now, calls, started, sent>>

NextInvoke == InvokeProvider

SpecInvoke == InitInvoke /\ [][NextInvoke]_vars

(***************************************************************************)
(* The assistant screen (EnhancedAIAssistant) on its own: handleSendMessage *)
(* called by the send button, a quick action or an alert button, with       *)
(* processMessage as a promise that resolves with a reply or rejects.       *)
(***************************************************************************)
\* what the user may type, and the `text` argument: none (the send button),
\* an empty string, or a prompt
InputTexts == {<<>>, <<" ">>, <<" ", "Help", " ">>}
TextArguments == {Undefined, <<>>, <<"Find", " ", "parts">>}

\* the replies processMessage may resolve to
ScreenReplies == {Labelled(parseAIResponse(PLACEHOLDER), "GROQ"),
                  getOfflineFallbackResponse(<<"hello">>)}

\* messages: the greeting of the initial state
GREETING == [isUser |-> FALSE, text |-> <<"Hello!">>, provider |-> "System"]

ERROR_MESSAGE == [isUser |-> FALSE, text |-> <<"I apologize">>, provider |-> "Error Handler"]

InitScreen ==
    /\ env = UnsetKey
    /\ currentProvider = "GROQ"
    /\ requestCounts = [p \in Providers |-> NoState]
    /\ now = 0
    /\ calls = [s \in Slots |-> IdleCall]
    /\ started = 0
    /\ sent = [on |-> FALSE, by |-> [p \in Providers |-> [start |-> 0, n |-> 0]]]
    /\ probe = NoProbe
    /\ screen = [NoScreen EXCEPT !.messages = <<GREETING>>]

\* onChangeText of the input field, which is editable while nothing is processed
ChangeText(text) ==
    /\ ~screen.isProcessing
    /\ screen' = [screen EXCEPT !.inputText = text]
    /\ UNCHANGED <<env, currentProvider, requestCounts, now, calls, started, sent, probe>>

\* `text || inputText.trim()`
messageTextOf(text, inputText) ==
    IF text # Undefined /\ text # <<>> THEN text ELSE Trim(inputText)

\* a handler that forgets to look at isProcessing
Accepted_WhileProcessing(messageText) == messageText # <<>>

\* `if (messageText === '' || isProcessing) return;`
Accepted(messageText) == messageText # <<>> /\ ~screen.isProcessing

\* handleSendMessage(text) up to `await freeLLMService.processMessage`, or to
\* its early return
HandleSendMessage(text) ==
    /\ LET messageText == messageTextOf(text, screen.inputText)
           userMessage == [isUser |-> TRUE, text |-> messageText, provider |-> ""]
           invoked == [n |-> 1 - screen.invoked.n, text |-> text,
                       inputText |-> screen.inputText]
       IN  IF ~Accepted(messageText)
           THEN /\ screen' = [screen EXCEPT !.invoked = invoked]
                /\ UNCHANGED started
           ELSE /\ started < MaxCalls
                /\ screen' = [screen EXCEPT !.messages = Append(@, userMessage),
                                            !.inputText = <<>>,
                                            !.isTyping = TRUE,
                                            !.isProcessing = TRUE,
                                            !.awaiting = TRUE,
                                            !.invoked = invoked]
                /\ started' = started + 1
    /\ UNCHANGED <<env, currentProvider, requestCounts, now, calls, sent, probe>>

\* processMessage resolves: the try block after the await, then `finally`
ReplyArrives(aiResponse) ==
    /\ screen.awaiting
    /\ LET aiMessage == [isUser |-> FALSE, text |-> <<aiResponse.message>>,
                         provider |-> aiResponse.provider]
       IN  screen' = [screen EXCEPT !.messages = Append(@, aiMessage),
                                    !.connectionStatus = "online",
                                    !.isTyping = FALSE,
                                    !.isProcessing = FALSE,
                                    !.awaiting = FALSE]
    /\ UNCHANGED <<env, currentProvider, requestCounts, now, calls, started, sent, probe>>

\* processMessage rejects: the catch block, then `finally`
CallRejects ==
    /\ screen.awaiting
    /\ screen' = [screen EXCEPT !.messages = Append(@, ERROR_MESSAGE),
                                !.connectionStatus = "limited",
                                !.isTyping = FALSE,
                                !.isProcessing = FALSE,
                                !.awaiting = FALSE]
    /\ UNCHANGED <<env, currentProvider, requestCounts, now, calls, started, sent, probe>>

NextScreen ==
    \/ \E text \in InputTexts : ChangeText(text)
    \/ \E text \in TextArguments : HandleSendMessage(text)
    \/ \E aiResponse \in ScreenReplies : ReplyArrives(aiResponse)
    \/ CallRejects

SpecScreen == InitScreen /\ [][NextScreen]_vars

(***************************************************************************)
(* Properties.                                                             *)
(***************************************************************************)
ProviderNames == {FREE_LLM_PROVIDERS[p].name : p \in Providers}

Returned(s) == calls[s].pc = "done"

LogProviders(log) == {log[i].provider : i \in 1..Len(log)}

Succeeded(log) == \E i \in 1..Len(log) : log[i].result = "ok"

\* the definition of "throttled" of the Rate Limiter's contract
Throttled(provider) ==
    /\ requestCounts[provider] # NoState
    /\ ~(now > requestCounts[provider].resetTime)
    /\ requestCounts[provider].count >= FREE_LLM_PROVIDERS[provider].rateLimit

\* C1: whatever the message, the credentials, the rate state and the answers of
\* the providers, processMessage never rejects, and the reply it resolves to
\* has a non-empty message.
C1_AlwaysReplies ==
    \A s \in Slots :
        /\ calls[s].pc # "rejected"
        /\ Returned(s) => calls[s].reply.message # ""

\* a call that replied after a provider answered a success status without the
\* completion text, and one that replied after every provider had failed
C1_Witness ==
    \E s \in Slots :
        /\ Returned(s)
        /\ \/ calls[s].reply.message = PLACEHOLDER
           \/ /\ calls[s].reply.provider = "Offline Fallback"
              /\ \E i \in 1..Len(calls[s].log) : calls[s].log[i].result = "failed"

\* C2: within one processMessage call no provider is invoked more than once.
C2_NoProviderInvokedTwice ==
    \A s \in Slots :
        \A i, j \in 1..Len(calls[s].log) :
            calls[s].log[i].provider = calls[s].log[j].provider => i = j

\* C3: a call that returns a provider's reply, reached as the primary choice or
\* through fallback, has recorded the request against that provider's rate state
\* (count created at 1, or incremented) in the step that returns the reply.
C3_SuccessIsRecorded ==
    [][\A s \in Slots :
          (~Returned(s) /\ calls'[s].pc = "done"
              /\ calls'[s].reply.provider \in ProviderNames)
          => LET log == calls'[s].log
                 provider == log[Len(log)].provider
             IN  /\ FREE_LLM_PROVIDERS[provider].name = calls'[s].reply.provider
                 /\ requestCounts'[provider] # NoState
                 /\ \/ requestCounts'[provider] =
                          [count |-> 1, resetTime |-> now + WINDOW_MS]
                    \/ /\ requestCounts[provider] # NoState
                       /\ requestCounts'[provider].count = requestCounts[provider].count + 1
                       /\ requestCounts'[provider].resetTime =
                              requestCounts[provider].resetTime]_vars


\* the first configured provider in the order Groq, Together AI, Cohere, Hugging Face
FirstConfigured ==
    LET i == CHOOSE k \in 1..Len(ProviderOrder) :
                 /\ Configured(ProviderOrder[k])
                 /\ \A j \in 1..(k - 1) : ~Configured(ProviderOrder[j])
    IN  ProviderOrder[i]

\* processMessage has chosen the provider it considers first
Started(s) == calls[s].pc # "idle" /\ calls[s].actualProvider # None

LastEntry(log) == log[Len(log)]

\* C4 as claimed: a request that names no provider, or one without a valid
\* credential, considers the first configured provider of the fixed order first,
\* whatever earlier calls did.
C4_FirstConfiguredFirst ==
    \A s \in Slots :
        (Started(s) /\ (calls[s].provider = None \/ ~Configured(calls[s].provider)))
        => calls[s].actualProvider = FirstConfigured

\* C4 as amended: the current provider is kept across calls.  It changes only
\* to the provider that has just succeeded in a fallback pass; a request that
\* names no provider considers the current provider first if it has a valid
\* credential and the first configured provider otherwise, and a request that
\* names a provider without a valid credential considers the first configured one.
C4_CurrentProviderFirst ==
    [][/\ currentProvider' # currentProvider
          => \E s \in Slots :
                /\ ~Returned(s) /\ calls'[s].pc = "done"
                /\ LastEntry(calls'[s].log) =
                       [provider |-> currentProvider', phase |-> "fallback", result |-> "ok"]
       /\ \A s \in Slots :
             (/\ started' = started + 1
              /\ calls'[s] # calls[s]
              /\ calls'[s].actualProvider # None)
             => LET c == calls'[s]
                IN  /\ c.provider = None
                       => c.actualProvider = IF Configured(currentProvider)
                                             THEN currentProvider ELSE FirstConfigured
                    /\ (c.provider # None /\ ~Configured(c.provider))
                       => c.actualProvider = FirstConfigured]_vars

\* a request that names no provider starts with a provider that is not the
\* first configured one: the provider an earlier fallback pass switched to
C4_Witness ==
    \E s \in Slots :
        /\ Started(s)
        /\ calls[s].provider = None
        /\ calls[s].actualProvider # FirstConfigured
        /\ calls[s].actualProvider = currentProvider

\* C5: the network requests sent to one provider inside one 60-second window
\* never exceed the provider's requests-per-minute budget.
C5_SendsWithinBudget ==
    \A p \in Providers : sent.by[p].n <= FREE_LLM_PROVIDERS[p].rateLimit

\* C6: no network call is issued to a provider that is throttled when it is
\* considered: a throttled primary is not invoked as primary, and every step
\* that issues a call issues it to a provider that is not throttled.
C6_NoCallWhileThrottled ==
    /\ [](\A s \in Slots :
             calls[s].primaryLimited
             => \A i \in 1..Len(calls[s].log) : calls[s].log[i].phase # "primary")
    /\ [][\A s \in Slots :
             (calls'[s] # calls[s] /\ calls'[s].pc \in {"awaitPrimary", "awaitFallback"})
             => ~Throttled(LastEntry(calls'[s].log).provider)]_vars

\* the primary provider is throttled and has been passed over: the call awaits
\* another provider
C6_Witness ==
    \E s \in Slots :
        /\ calls[s].primaryLimited
        /\ calls[s].pc = "awaitFallback"
        /\ Throttled(calls[s].actualProvider)
        /\ calls[s].actualProvider \notin LogProviders(calls[s].log)

\* position of a provider in the list of available providers
IndexIn(providers, provider) == CHOOSE i \in 1..Len(providers) : providers[i] = provider

\* C7 as claimed: with the preferred provider A configured but throttled and
\* another configured provider B whose call succeeds, the reply carries B's
\* display name and A is not invoked during the call.
C7_ThrottledPreferredNeverInvoked ==
    \A s \in Slots : \A A, B \in Providers :
        (/\ Returned(s)
         /\ calls[s].provider = A /\ Configured(A) /\ calls[s].primaryLimited
         /\ B # A /\ Configured(B)
         /\ \E i \in 1..Len(calls[s].log) :
               calls[s].log[i].provider = B /\ calls[s].log[i].result = "ok")
        => /\ calls[s].reply.provider = FREE_LLM_PROVIDERS[B].name
           /\ A \notin LogProviders(calls[s].log)

\* C7 as amended: with the preferred provider A configured but throttled the
\* call goes straight to one fallback pass in the fixed order.  The reply
\* carries the display name of the first provider of the pass that is not
\* throttled when reached and whose call succeeds: every available provider
\* before it either failed or is still throttled.  A is not invoked while
\* throttled: it is invoked only if its window has run out when the pass
\* reaches it, and its rate state is then gone.
C7_ThrottledPreferredFallsBack ==
    \A s \in Slots : \A A \in Providers :
        (/\ Returned(s)
         /\ calls[s].provider = A /\ Configured(A) /\ calls[s].primaryLimited)
        => LET c == calls[s]
               log == c.log
               n == Len(log)
               won == n > 0 /\ log[n].result = "ok"
               reached == IF won THEN IndexIn(c.availableProviders, log[n].provider) - 1
                          ELSE Len(c.availableProviders)
           IN  /\ c.actualProvider = A
               /\ \A i \in 1..n : log[i].phase = "fallback"
               /\ \A i \in 1..(n - 1) : log[i].result = "failed"
               /\ \A i, j \in 1..n :
                     i < j => IndexIn(c.availableProviders, log[i].provider)
                                  < IndexIn(c.availableProviders, log[j].provider)
               /\ won => c.reply.provider = FREE_LLM_PROVIDERS[log[n].provider].name
               /\ ~won => c.reply.provider = "Offline Fallback"
               /\ \A i \in 1..reached :
                     LET p == c.availableProviders[i]
                     IN  \/ \E k \in 1..n : log[k].provider = p /\ log[k].result = "failed"
                         \/ /\ requestCounts[p] # NoState
                            /\ requestCounts[p].count >= FREE_LLM_PROVIDERS[p].rateLimit
               /\ A \in LogProviders(log) => requestCounts[A] = NoState

\* the preferred provider was throttled and the reply comes from another provider
C7_Witness ==
    \E s \in Slots : \E A \in Providers :
        /\ Returned(s)
        /\ calls[s].provider = A /\ Configured(A) /\ calls[s].primaryLimited
        /\ calls[s].reply.provider \in ProviderNames
        /\ calls[s].reply.provider # FREE_LLM_PROVIDERS[A].name
        /\ A \notin LogProviders(calls[s].log)


\* the spellings of a keyword that lower-case to it
Spellings(keyword) ==
    CASE keyword = "part"  -> {"part", "Part"}
      [] keyword = "fault" -> {"fault", "FAULT"}
      [] OTHER -> {keyword}

\* the lower-cased message contains one of the keywords
Mentions(message, keywords) ==
    \E i \in 1..Len(message) : \E k \in keywords : message[i] \in Spellings(k)

\* C8 as claimed: any message with "fault", "error" or "code" gets the
\* fault-code text; otherwise "part" or "component" gives the parts text;
\* otherwise "maintenance" or "service" the maintenance text; otherwise the default.
C8_FaultKeywordsFirst ==
    probe.applied
    => probe.output.message =
          IF Mentions(probe.input, {"fault", "error", "code"}) THEN OFFLINE_FAULT
          ELSE IF Mentions(probe.input, {"part", "component"}) THEN OFFLINE_PARTS
          ELSE IF Mentions(probe.input, {"maintenance", "service"}) THEN OFFLINE_MAINTENANCE
          ELSE OFFLINE_DEFAULT

\* C8 as amended: the parts keywords are tested first.  Any message with
\* "part" or "component" gets the parts text; otherwise "fault", "error" or
\* "code" gives the fault-code text; otherwise "maintenance" or "service" the
\* maintenance text; otherwise the default; always as "Offline Fallback" at 0.6.
C8_PartKeywordsFirst ==
    probe.applied
    => /\ probe.output.message =
             IF Mentions(probe.input, {"part", "component"}) THEN OFFLINE_PARTS
             ELSE IF Mentions(probe.input, {"fault", "error", "code"}) THEN OFFLINE_FAULT
             ELSE IF Mentions(probe.input, {"maintenance", "service"})
             THEN OFFLINE_MAINTENANCE
             ELSE OFFLINE_DEFAULT
       /\ probe.output.provider = "Offline Fallback"
       /\ probe.output.confidence = 6

\* a message with a parts keyword and a fault keyword, answered with the parts text
C8_Witness ==
    /\ probe.applied
    /\ Mentions(probe.input, {"part", "component"})
    /\ Mentions(probe.input, {"fault", "error", "code"})
    /\ probe.output.message = OFFLINE_PARTS

\* C9: with at least one provider configured, a call in which no invocation
\* succeeded (every configured provider was throttled when considered or failed
\* each time it was invoked) returns "Offline Fallback" with confidence 0.6.
C9_ExhaustedGivesOffline ==
    \A s \in Slots :
        (Returned(s) /\ (\E p \in Providers : Configured(p)) /\ ~Succeeded(calls[s].log))
        => /\ calls[s].reply.provider = "Offline Fallback"
           /\ calls[s].reply.confidence = 6

\* a call that found one provider throttled, saw another fail, and returned
C9_Witness ==
    \E s \in Slots :
        /\ Returned(s)
        /\ ~Succeeded(calls[s].log)
        /\ \E i \in 1..Len(calls[s].log) : calls[s].log[i].result = "failed"
        /\ \E p \in Providers :
              Configured(p) /\ Throttled(p) /\ p \notin LogProviders(calls[s].log)
        /\ calls[s].reply.provider = "Offline Fallback"

NoneConfigured == \A p \in Providers : ~Configured(p)

\* C10: with no valid credential at all, every call returns "Configuration
\* Helper" with confidence 1.0 without issuing a network call, and the rate
\* state and the current provider stay as the constructor left them.
C10_NoCredentialGivesSetupHelp ==
    NoneConfigured
    => /\ \A s \in Slots :
             /\ calls[s].pc \in {"idle", "done"}
             /\ calls[s].log = <<>>
             /\ Returned(s) => /\ calls[s].reply.provider = "Configuration Helper"
                               /\ calls[s].reply.confidence = 10
       /\ \A p \in Providers : requestCounts[p] = NoState
       /\ currentProvider = "GROQ"

\* a call answered with the setup instructions
C10_Witness ==
    /\ NoneConfigured
    /\ \E s \in Slots : Returned(s) /\ calls[s].reply.provider = "Configuration Helper"

\* a credential that is absent, blank after trimming, or contains "your_" or
\* "_api_key_here"
Unusable(key) ==
    \/ key = NoKey
    \/ \A i \in 1..Len(key) : key[i] \in BlankPieces
    \/ \E i \in 1..Len(key) : key[i] \in {"your_", "_api_key_here"}

Elements(seq) == {seq[i] : i \in 1..Len(seq)}

\* C11: a provider whose credential is absent, blank after trimming, or
\* contains "your_" or "_api_key_here" is never in the available-provider list
\* of a call and is never sent a network call; a provider with any other
\* credential is in the available-provider list of every call, and the setup
\* reply is returned exactly when no provider has such a credential.
C11_PlaceholderKeysNotConfigured ==
    \A s \in Slots :
        calls[s].pc # "idle"
        => /\ \A p \in Providers :
                 /\ Unusable(env[p])
                    => /\ p \notin Elements(calls[s].availableProviders)
                       /\ p \notin LogProviders(calls[s].log)
                 /\ ~Unusable(env[p]) => p \in Elements(calls[s].availableProviders)
           /\ (Returned(s) /\ calls[s].reply.provider = "Configuration Helper")
                 <=> \A p \in Providers : Unusable(env[p])

\* a call sent to a provider whose credential is neither a shipped value nor
\* the real key, while another provider holds a credential with "your_" past
\* its first piece and a third one a blank credential
C11_Witness ==
    \E s \in Slots : \E p, q, r \in Providers :
        /\ Returned(s)
        /\ env[p] \notin {ValidKey, UnsetKey[p]} /\ ~Unusable(env[p])
        /\ p \in LogProviders(calls[s].log)
        /\ \E i \in 2..Len(env[q]) : env[q][i] = "your_"
        /\ env[r] # <<>> /\ \A i \in 1..Len(env[r]) : env[r][i] = " "

\* C12: one processMessage call issues at most N network calls, N being the
\* number of providers with a valid credential, and issues them one after
\* another: only the call issued last can still be awaiting its answer.
C12_AtMostNCallsInSequence ==
    \A s \in Slots :
        LET log == calls[s].log
        IN  /\ Len(log) <= Cardinality({p \in Providers : ~Unusable(env[p])})
            /\ \A i \in 1..(Len(log) - 1) : log[i].result # "pending"

\* the provider the rate limiter is applied to, and its budget
RateProvider == probe.input[1]
Budget == FREE_LLM_PROVIDERS[RateProvider].rateLimit

\* C13: isRateLimited answers true exactly when rate state exists for the
\* provider, the time of the call is not past the stored resetTime and the
\* count has reached the provider's budget; it answers true once exactly
\* `budget` requests are recorded in one window, up to and including the
\* window's last instant, and false when there is no rate state.
C13_ThrottledIffBudgetReached ==
    probe.applied
    => /\ probe.limited <=> /\ probe.before # NoState
                            /\ ~(probe.at > probe.before.resetTime)
                            /\ probe.before.count >= Budget
       /\ (probe.n = Budget /\ probe.at <= probe.first + WINDOW_MS) => probe.limited
       /\ probe.before = NoState => ~probe.limited

\* exactly `budget` requests recorded, and isRateLimited asked at the very
\* instant the window ends
C13_Witness ==
    /\ probe.applied /\ probe.limited
    /\ probe.n = Budget
    /\ probe.at = probe.first + WINDOW_MS
    /\ probe.at = probe.before.resetTime

\* C14: once the clock is past the stored resetTime, isRateLimited answers
\* false and clears the rate state; the next recorded request opens a window
\* with the count at 1 that ends 60 s later; and the provider has its full
\* budget again: it is throttled only when `budget` requests or more are
\* recorded in the current window.
C14_WindowExpiryRestoresBudget ==
    /\ [](probe.applied
            => /\ (probe.before # NoState /\ probe.at > probe.before.resetTime)
                  => /\ ~probe.limited
                     /\ requestCounts[RateProvider] = NoState
               /\ probe.limited
                  => /\ probe.n >= Budget
                     /\ probe.at <= probe.first + WINDOW_MS)
    /\ [][(/\ <<probe'.first, probe'.n>> # <<probe.first, probe.n>>
           /\ \/ requestCounts[RateProvider] = NoState
              \/ now > requestCounts[RateProvider].resetTime)
          => requestCounts'[RateProvider] =
                 [count |-> 1, resetTime |-> now + WINDOW_MS]]_vars

\* a provider that was throttled, asked again after its window has run out
C14_Witness ==
    /\ probe.applied /\ ~probe.limited
    /\ probe.before # NoState
    /\ probe.before.count >= Budget
    /\ probe.at > probe.before.resetTime
    /\ requestCounts[RateProvider] = NoState

\* C15: a call whose request names a provider P that has a valid credential
\* and is not throttled when the call starts issues its first network call to
\* P, as the primary call, whatever the current provider is and whatever
\* happened to P in earlier calls.
C15_NamedProviderCalledFirst ==
    [][\A s \in Slots : \A P \in Providers :
          (/\ started' = started + 1
           /\ calls'[s] # calls[s]
           /\ calls'[s].provider = P
           /\ Configured(P) /\ ~Throttled(P))
          => /\ calls'[s].pc = "awaitPrimary"
             /\ calls'[s].log = <<Entry(P, "primary")>>]_vars

\* the second call names Groq and awaits Groq, although Groq failed in the
\* first call (it has no request recorded, and the fallback pass of that call
\* went on to Together AI, now the current provider)
C15_Witness ==
    \E s \in Slots :
        /\ started = 2
        /\ calls[s].provider = "GROQ"
        /\ calls[s].log = <<Entry("GROQ", "primary")>>
        /\ Configured("GROQ")
        /\ requestCounts["GROQ"] = NoState /\ now = 0
        /\ currentProvider = "TOGETHER"

\* the fixed order: Groq, then Together AI, then Cohere, then Hugging Face
FallbackRank(provider) ==
    CASE provider = "GROQ" -> 1
      [] provider = "TOGETHER" -> 2
      [] provider = "COHERE" -> 3
      [] provider = "HUGGING_FACE" -> 4

IsFallback(entry) == entry.phase = "fallback"

\* C16: fallback attempts are made only after the primary provider failed or
\* was found throttled, in the order Groq, Together AI, Cohere, Hugging Face,
\* and only to configured providers that are not throttled when the attempt is
\* issued; the pass stops at the first provider whose call succeeds and the
\* reply carries that provider's display name; the offline text is returned
\* only after the whole pass, when every configured provider has failed in
\* the pass or was throttled when the pass reached it.
C16_FallbackInFixedOrder ==
    /\ [](\A s \in Slots :
             LET c == calls[s]
                 log == c.log
                 attempts == SelectSeq(log, IsFallback)
             IN  /\ \A i, j \in 1..Len(attempts) :
                       i < j => FallbackRank(attempts[i].provider)
                                    < FallbackRank(attempts[j].provider)
                 /\ \A i \in 1..Len(attempts) : ~Unusable(env[attempts[i].provider])
                 /\ \A i \in 1..(Len(log) - 1) : log[i].result = "failed"
                 /\ Len(attempts) > 0
                       => \/ c.primaryLimited
                          \/ log[1] = [provider |-> c.actualProvider, phase |-> "primary",
                                       result |-> "failed"]
                 /\ (Returned(s) /\ Len(attempts) > 0 /\ LastEntry(log).result = "ok")
                       => c.reply.provider = FREE_LLM_PROVIDERS[LastEntry(log).provider].name
                 /\ (Returned(s) /\ c.reply.provider = "Offline Fallback")
                       => \A p \in Providers :
                             ~Unusable(env[p])
                             => \/ \E i \in 1..Len(attempts) :
                                      attempts[i] = [provider |-> p, phase |-> "fallback",
                                                     result |-> "failed"]
                                \/ /\ requestCounts[p] # NoState
                                   /\ requestCounts[p].count >= FREE_LLM_PROVIDERS[p].rateLimit)
    /\ [][\A s \in Slots :
             (calls'[s] # calls[s] /\ calls'[s].pc = "awaitFallback")
             => ~Throttled(LastEntry(calls'[s].log).provider)]_vars

\* the primary call failed, a first fallback attempt failed, and a later
\* provider of the order answered: the reply carries its name
C16_Witness ==
    \E s \in Slots :
        LET log == calls[s].log
        IN  /\ Returned(s)
            /\ Len(log) >= 3
            /\ log[1].phase = "primary" /\ log[1].result = "failed"
            /\ log[Len(log)].phase = "fallback" /\ log[Len(log)].result = "ok"
            /\ calls[s].reply.provider = FREE_LLM_PROVIDERS[log[Len(log)].provider].name

\* every network call the call has made to the provider succeeded
NeverFailed(log, provider) ==
    \A i \in 1..Len(log) : log[i].provider = provider => log[i].result # "failed"

\* C17: the "Offline Fallback" reply is returned only when the providers are
\* exhausted.  A call returns it only if every configured provider either
\* failed in a network call of that call or is throttled (its recorded count
\* has reached its budget in a window that was open when the call considered
\* it); so with a configured provider that is not throttled and whose calls
\* all succeed the reply carries one of the four provider names, as does
\* every reply returned after a successful network call.
C17_OfflineOnlyWhenExhausted ==
    \A s \in Slots :
        Returned(s)
        => /\ calls[s].reply.provider = "Offline Fallback"
              => \A p \in Providers :
                    Configured(p)
                    => \/ ~NeverFailed(calls[s].log, p)
                       \/ /\ requestCounts[p] # NoState
                          /\ requestCounts[p].count >= FREE_LLM_PROVIDERS[p].rateLimit
           /\ (\E p \in Providers :
                  /\ Configured(p) /\ NeverFailed(calls[s].log, p)
                  /\ \/ requestCounts[p] = NoState
                     \/ requestCounts[p].count < FREE_LLM_PROVIDERS[p].rateLimit)
              => calls[s].reply.provider \in ProviderNames

\* one provider was throttled and passed over, another failed, and a third,
\* not throttled, answered: the reply carries its name
C17_Witness ==
    \E s \in Slots : \E p, q, r \in Providers :
        /\ Returned(s)
        /\ Configured(p) /\ Throttled(p) /\ p \notin LogProviders(calls[s].log)
        /\ ~NeverFailed(calls[s].log, q)
        /\ r \notin {p, q} /\ Configured(r) /\ NeverFailed(calls[s].log, r)
        /\ calls[s].reply.provider = FREE_LLM_PROVIDERS[r].name

\* C18: every reply has a confidence between 0 and 1 and a label among the
\* four provider names, "Configuration Helper" and "Offline Fallback"; the
\* confidence is 0.8 exactly for the provider names, 1.0 exactly for
\* "Configuration Helper" and 0.6 exactly for "Offline Fallback", and the
\* label is never the empty string of the parser.
C18_LabelAndConfidencePaired ==
    \A s \in Slots :
        Returned(s)
        => LET reply == calls[s].reply
           IN  /\ reply.confidence \in 0..10
               /\ reply.provider \in ProviderNames \cup {"Configuration Helper",
                                                         "Offline Fallback"}
               /\ reply.provider # ""
               /\ reply.confidence = 8 <=> reply.provider \in ProviderNames
               /\ reply.confidence = 10 <=> reply.provider = "Configuration Helper"
               /\ reply.confidence = 6 <=> reply.provider = "Offline Fallback"

\* a reply parsed from the answer of a provider reached by the fallback pass
C18_Witness ==
    \E s \in Slots :
        /\ Returned(s)
        /\ calls[s].log # <<>>
        /\ LastEntry(calls[s].log).phase = "fallback"
        /\ LastEntry(calls[s].log).result = "ok"
        /\ calls[s].reply.provider = "Together AI"
        /\ calls[s].reply.confidence = 8

\* C19: a fault-code record always has a severity among low, medium, high
\* and critical.
C19_SeverityInRange ==
    (probe.applied /\ probe.faultCodeInfo.present)
    => probe.faultCodeInfo.severity \in {<<"low">>, <<"medium">>, <<"high">>, <<"critical">>}

IsPartLine(paragraph) == paragraph.kind = "part"

\* C20: the parser produces one suggestion per line of the raw text written
\* in the part format, in order, with the line's number as partNumber, its
\* name as name and its description as reasonForSuggestion, aiRecommended
\* true, and the request's equipment serial numbers as compatibility.
C20_OneSuggestionPerPartLine ==
    probe.applied
    => LET lines == SelectSeq(probe.input, IsPartLine)
       IN  /\ Len(probe.suggestions) = Len(lines)
           /\ \A k \in 1..Len(lines) :
                 /\ probe.suggestions[k].partNumber = lines[k].number
                 /\ probe.suggestions[k].name = lines[k].name
                 /\ probe.suggestions[k].reasonForSuggestion = lines[k].reason
                 /\ probe.suggestions[k].aiRecommended
                 /\ probe.suggestions[k].compatibility =
                        IF probe.serials = Undefined THEN <<>> ELSE probe.serials

IsProse(paragraph) == paragraph.kind \in {"intro", "plain"}

\* C21: a raw text that holds no part line, no fault-code block and no
\* numbered steps is parsed without failure: the reply's message is the raw
\* text, no suggestions, fault-code record or troubleshooting steps are
\* produced, and the invocation does not throw (so no fallback is started).
C21_UnstructuredTextParsesPlain ==
    (probe.applied /\ \A k \in 1..Len(probe.input) : IsProse(probe.input[k]))
    => /\ ~probe.threw
       /\ probe.output.message = RawText(probe.input)
       /\ probe.suggestions = <<>>
       /\ ~probe.faultCodeInfo.present
       /\ ~probe.troubleshootingSteps.present

\* a prose text that even ends in "part:" has been parsed
C21_Witness ==
    /\ probe.applied
    /\ Len(probe.input) >= 2
    /\ \A k \in 1..Len(probe.input) : IsProse(probe.input[k])
    /\ \E k \in 1..Len(probe.input) : probe.input[k].kind = "intro"
    /\ probe.output.message = RawText(probe.input)
    /\ ~probe.threw

\* the step in which call s records its request: the primary call succeeded
Records(s) ==
    /\ calls[s].pc = "awaitPrimary"
    /\ calls'[s].pc = "done"
    /\ LastEntry(calls'[s].log).result = "ok"

\* C22: recording a request for a provider at instant `now`: with no rate
\* state, or a stored resetTime that `now` is past, the provider's state
\* becomes count 1 and resetTime now + 60000; otherwise its count grows by
\* one and its resetTime stays; no other provider's rate state changes.
C22_RecordRequestUpdatesOneWindow ==
    [][\A s \in Slots :
          Records(s) =>
              LET provider == calls[s].actualProvider
                  old == requestCounts[provider]
              IN  /\ requestCounts'[provider] =
                        IF old = NoState \/ now > old.resetTime
                        THEN [count |-> 1, resetTime |-> now + 60000]
                        ELSE [count |-> old.count + 1, resetTime |-> old.resetTime]
                  /\ \A other \in Providers \ {provider} :
                        requestCounts'[other] = requestCounts[other]]_vars

\* a request recorded after its provider's window ran out, while another
\* provider keeps the window opened at time 0
C22_Witness ==
    \E s \in Slots :
        /\ Returned(s)
        /\ calls[s].log # <<>>
        /\ LastEntry(calls[s].log) = [provider |-> "GROQ", phase |-> "primary", result |-> "ok"]
        /\ now > WINDOW_MS
        /\ requestCounts["GROQ"] = [count |-> 1, resetTime |-> now + 60000]
        /\ requestCounts["TOGETHER"] =
               [count |-> FREE_LLM_PROVIDERS["TOGETHER"].rateLimit - Headroom,
                resetTime |-> 60000]

\* a success status whose envelope lacks the completion field: the array is
\* absent, the array is empty, or its first element has no such field
FieldMissing(response) ==
    /\ response.kind = "ok"
    /\ \/ response.data.shape \in {"no_array", "empty_array"}
       \/ response.data.shape = "element" /\ response.data.content.type = "undefined"

\* C23: a provider that answers a success status without the completion
\* field, in whichever way the field is missing, yields the placeholder text
\* as a successful result: the reply carries the provider's name and the
\* catch block (the fallback pass) is not entered.
C23_MissingFieldYieldsPlaceholder ==
    (/\ probe.fn = "callLLMProvider"
     /\ probe.applied
     /\ getValidApiKey(probe.input[1])
     /\ FieldMissing(probe.answer))
    => /\ ~probe.threw
       /\ probe.output.message = PLACEHOLDER
       /\ probe.output.provider = FREE_LLM_PROVIDERS[probe.input[1]].name

\* C24: even when processMessage calls overlap, interleaving at their await
\* points, the count recorded for a provider in a window never exceeds the
\* provider's per-minute budget.
C24_OverlapKeepsCountWithinBudget ==
    \A provider \in Providers :
        requestCounts[provider] # NoState
        => requestCounts[provider].count <= FREE_LLM_PROVIDERS[provider].rateLimit

\* the step settles the provider call that call s is awaiting
Settles(s) ==
    /\ LastEntry(calls[s].log).result = "pending"
    /\ calls'[s].log[Len(calls[s].log)].result # "pending"

\* C25: when every provider call that is issued settles, every processMessage
\* call returns a reply, after at most one provider call more than there are
\* available providers; and a call that awaits a provider is resumed by
\* nothing but the settling of that provider call: the passing of time alone
\* never ends it.
C25_ReturnsWhenProviderCallsSettle ==
    /\ \A s \in Slots : InFlight(s) ~> Returned(s)
    /\ [](\A s \in Slots : Len(calls[s].log) <= Len(calls[s].availableProviders) + 1)
    /\ [][\A s \in Slots :
             (InFlight(s) /\ calls'[s] # calls[s]) => (Settles(s) /\ now' = now)]_vars

\* a call returned after its primary call and every fallback call before the
\* last one had failed, at a later time than it was started
C25_Witness ==
    \E s \in Slots :
        /\ Returned(s)
        /\ Len(calls[s].log) = 3
        /\ calls[s].log[1].result = "failed"
        /\ calls[s].log[2].result = "failed"
        /\ now > 0

\* the step records a request of the provider that SpecWindow follows
RecordsNow ==
    /\ probe.fn = "processMessage"
    /\ now' = now
    /\ probe'.recorded # probe.recorded

\* C27: over calls that do not overlap, and any advance of the clock, a
\* provider's rate state, whenever it exists, has 1 <= count <= rateLimit,
\* and its resetTime is 60000 ms after the recorded request that opened the
\* window: a resetTime is written only by a step that records a request,
\* as now + 60000 together with count 1, and it stays as written for as long
\* as the state exists.
C27_WindowStateWellFormed ==
    /\ [](\A provider \in Providers :
             requestCounts[provider] # NoState
             => /\ 1 <= requestCounts[provider].count
                /\ requestCounts[provider].count <= FREE_LLM_PROVIDERS[provider].rateLimit)
    /\ [][\A provider \in Providers :
             (/\ requestCounts'[provider] # NoState
              /\ requestCounts'[provider].resetTime # requestCounts[provider].resetTime)
             => /\ RecordsNow
                /\ provider = probe.input[1]
                /\ requestCounts'[provider] = [count |-> 1, resetTime |-> now + 60000]]_vars

\* a window opened after the clock had advanced is full at its last instant
C27_Witness ==
    /\ probe.fn = "processMessage"
    /\ requestCounts[probe.input[1]].count = FREE_LLM_PROVIDERS[probe.input[1]].rateLimit
    /\ requestCounts[probe.input[1]].resetTime > WINDOW_MS
    /\ now = requestCounts[probe.input[1]].resetTime

RECURSIVE SumSeq(_)
SumSeq(seq) == IF seq = <<>> THEN 0 ELSE Head(seq) + SumSeq(Tail(seq))

\* C26: over calls that do not overlap, and any advance of the clock, the
\* number of requests recorded for a provider inside an interval of 60
\* seconds never exceeds twice the provider's budget.
C26_AtMostTwiceBudgetPerMinute ==
    probe.fn = "processMessage"
    => SumSeq(probe.recorded) <= 2 * FREE_LLM_PROVIDERS[probe.input[1]].rateLimit

\* more requests than the budget recorded within 60 seconds, across the end
\* of a window
C26_Witness ==
    /\ probe.fn = "processMessage"
    /\ SumSeq(probe.recorded) > FREE_LLM_PROVIDERS[probe.input[1]].rateLimit
    /\ probe.recorded[1] > 0
    /\ probe.recorded[Instants] > 0

\* the step in which a fallback call of call s succeeds and s returns
FallbackSucceeds(s) ==
    /\ calls[s].pc = "awaitFallback"
    /\ calls'[s].pc = "done"
    /\ LastEntry(calls'[s].log).phase = "fallback"
    /\ LastEntry(calls'[s].log).result = "ok"

\* the step in which processMessage is entered for call s
Enters(s) == ~InFlight(s) /\ calls'[s] # calls[s]

\* C28: currentProvider changes only when a fallback call succeeds, and then
\* it is the provider whose reply is returned; a primary success, a failed
\* call, the configuration reply and the offline reply leave it unchanged;
\* a call that names no provider considers currentProvider first whenever
\* that provider's credential is valid.
C28_CurrentProviderFollowsFallback ==
    /\ [][\A s \in Slots :
             FallbackSucceeds(s)
             => /\ currentProvider' = LastEntry(calls'[s].log).provider
                /\ calls'[s].reply.provider = FREE_LLM_PROVIDERS[currentProvider'].name]_vars
    /\ [][(\A s \in Slots : ~FallbackSucceeds(s)) => currentProvider' = currentProvider]_vars
    /\ [][\A s \in Slots :
             (/\ Enters(s)
              /\ calls'[s].provider = None
              /\ calls'[s].actualProvider # None
              /\ Configured(currentProvider))
             => calls'[s].actualProvider = currentProvider]_vars

\* after a fallback success made Together AI the current provider, a call
\* that names no provider has its primary call to Together AI pending
C28_Witness ==
    \E s \in Slots :
        /\ currentProvider = "TOGETHER"
        /\ Configured("GROQ")
        /\ calls[s].pc = "awaitPrimary"
        /\ calls[s].provider = None
        /\ calls[s].actualProvider = "TOGETHER"

\* the step in which the provider call that call s awaits fails
Fails(s) ==
    /\ InFlight(s)
    /\ calls'[s].log[Len(calls[s].log)].result = "failed"

\* C29: a provider call that fails (a rejected fetch, a non-success status,
\* an exception while the response is read) counts nothing and switches
\* nothing: currentProvider stays, and every provider's rate state stays as
\* it was, but for a window already over that the throttle check of the
\* fallback pass, resumed in the same step, removes.
C29_FailureLeavesStateAlone ==
    [][\A s \in Slots :
          Fails(s)
          => /\ currentProvider' = currentProvider
             /\ \A provider \in Providers :
                   \/ requestCounts'[provider] = requestCounts[provider]
                   \/ /\ requestCounts'[provider] = NoState
                      /\ now > requestCounts[provider].resetTime]_vars

\* a call returned after its primary call failed, the provider's window open
\* and its count as it was before the call
C29_Witness ==
    \E s \in Slots :
        /\ Returned(s)
        /\ calls[s].log # <<>>
        /\ calls[s].log[1].result = "failed"
        /\ now = 0
    /\ screen = NoScreen
        /\ requestCounts[calls[s].log[1].provider] =
               [count |-> FREE_LLM_PROVIDERS[calls[s].log[1].provider].rateLimit - Headroom,
                resetTime |-> 60000]

\* the step is a call of handleSendMessage
Invokes == screen'.invoked.n # screen.invoked.n

\* the message text of the call of handleSendMessage made in this step
InvokedText == messageTextOf(screen'.invoked.text, screen'.invoked.inputText)

====
